---- MODULE Spec2Model ----
(***************************************************************************)
(* A model of the kernel core: the block filesystem (drivers/drives.rs,    *)
(* drivers/filesystem.rs), the keyboard driver and its interrupt handler   *)
(* (drivers/keyboard.rs, cpu/idt.rs, gui/mod.rs), and the window manager   *)
(* with its compositor (gui/window.rs, gui/desktop.rs, gui/widgets.rs).    *)
(*                                                                         *)
(* Sizes of the program that are too large to enumerate are scaled down    *)
(* and named as bounds: a sector holds SECTOR_SIZE bytes, the bitmap has   *)
(* FAT_BITS bits, and so on.  The relations between them that the code     *)
(* relies on are kept (see each bound).                                    *)
(***************************************************************************)
EXTENDS Integers, Sequences, FiniteSets, TLC

\* ------------------------------------------------------------------ bounds

\* Bytes per sector (ata.rs SECTOR_SIZE is 512).
SECTOR_SIZE == 2
\* Bits of the in-memory bitmap `fat` (drives.rs: FAT_SECTORS * 512 * 8).
FAT_BITS == 5
\* Superblock::new().total_blocks (4096 in drives.rs; smaller than the bitmap).
TOTAL_BLOCKS == 4
\* Directory entries (128 in drives.rs).
MAX_ENTRIES == 3
\* Bytes of DirEntry.name (MAX_FILENAME is 32 in drives.rs).
MAX_FILENAME == 3
\* Per-file block cap (BLOCKS_PER_FILE is 64 in drives.rs).
BLOCKS_PER_FILE == 2
\* free_blocks is a u32 that free_block only ever increments; runs are cut
\* when it has drifted this far above total_blocks.
MaxFreeDrift == 2
\* Calls on the mounted drive (and drive faults) in one run.
MaxOps == 6
\* Calls on the static FILESYSTEM in one run.
MaxSfsOps == 4
\* Slots of InputBuffer.buffer (256 in keyboard.rs).
INPUT_LEN == 3
\* Slots of SpecialKeyBuffer.buffer and CtrlComboBuffer.buffer (16 each).
KEY_LEN == 3
\* Keyboard interrupts in one run.
MaxIrqs == 4
\* The framebuffer, in pixels (the real screen is hundreds of pixels each way).
SCREEN_W == 5
SCREEN_H == 5
\* theme.rs: TASKBAR_HEIGHT is 32, TITLEBAR_HEIGHT 24, BUTTON_SIZE 16.
TASKBAR_HEIGHT == 1
TITLEBAR_HEIGHT == 1
BUTTON_SIZE == 1
\* The close button sits this far inside the window's top right corner
\* (the literal 4 of Window::close_button_bounds).
CLOSE_INSET == 0
\* Side of the resize handle (HANDLE_SIZE is 16 in resize_handle_bounds).
HANDLE_SIZE == 1
\* Window::MIN_WIDTH is 100 and MIN_HEIGHT 80: a window of the least size
\* still holds its borders, its title bar and the terminal's input line.
MIN_WIDTH == 3
MIN_HEIGHT == 3
\* Slots of WindowManager.windows and z_order (MAX_WINDOWS is 8).
MAX_WINDOWS == 4
\* StartMenu: x is 4, width 180, ITEM_HEIGHT 28, PADDING 4; a hovered item is
\* highlighted over ITEM_HEIGHT - 2 rows.
MENU_X == 0
MENU_WIDTH == 2
ITEM_HEIGHT == 1
PADDING == 0
ITEM_GAP == 0
\* The start button spans x in 4..67 and leaves 4 rows of the taskbar free
\* above and below; a click on it marks 80 columns of the taskbar dirty.
START_X0 == 0
START_X1 == 1
START_INSET == 0
START_DIRTY_W == 1
\* Rows of the terminal's input line (line_height + 6 is 18).
INPUT_LINE_H == 1
\* Frames of run_gui's main loop in one run.
MaxFrames == 3

\* ------------------------------------------------------------ filesystem

VARIABLES
    md,        \* MountedDrive: superblock, fat, entries, initialized
    disk,      \* the drive's sectors: metadata region and data blocks
    ata_ok,    \* whether the ATA drive currently answers (BSY clears, DRQ rises)
    md_last,   \* the last MountedDrive call and what it returned
    md_ops,    \* how many calls and drive faults the run has seen
    sfs,       \* SimpleFS: use_disk, superblock, fat, entries, initialized
    sfs_last,  \* the last SimpleFS call and what it returned
    sfs_prev,  \* the call before it
    sfs_ops,   \* how many SimpleFS calls the run has seen
    kbd,       \* keyboard.rs statics: KEYBOARD_STATE, the three rings, the mutexes
    irq,       \* the keyboard interrupt handler's position and locals
    gui,       \* run_gui's position in its keyboard polling and its locals
    khist,     \* history: queued keys per ring, keys accepted, keys delivered
    wm,        \* WindowManager: windows, window_count, z_order, drag, dirty_regions
    desk,      \* Desktop: start menu, last_mouse_down, dirty_rects; the cursor type
    fb,        \* the framebuffer with the cursor hidden: a colour per pixel
    whist,     \* history of the last frame: key routing, compositor pass, drag cycle
    frames,    \* how many frames the run has seen, and where run_gui is in this one
    zo,        \* a z_order array and its window_count, for bring_to_front alone
    zlast,     \* the last call on zo: its argument and the z-order before it
    pa,        \* the window of a .pa app: title, elements, visible, script engine
    pahist,    \* history: the file run, the clicks, the last handler, the last label
    wl,        \* a while statement in execution: engine, rounds, body runs
    scr,       \* a Screen and the last call on it
    cur,       \* the cursor module's statics and the screen it draws on
    ms,        \* the mouse driver's statics and where poll is in process_byte
    ata,       \* a single-sector ATA operation: its wait, its countdown, its result
    clk,       \* two .pa windows, the dirty lists and what the last frame drew
    par,       \* parse_pa on a text: the offset, the loop it is in, its result
    sp,        \* the script parser on a text: the offset, the loop, what is parsed
    ar,        \* the last arithmetic operation of a handler and its outcome
    pk,        \* the mouse packet buffer, where poll is in process_byte, history
    rt         \* a script engine whose functions return, and the last handler

fsvars == <<md, disk, ata_ok, md_last, md_ops, sfs, sfs_last, sfs_prev, sfs_ops>>
kbdvars == <<kbd, irq, gui, khist>>
guivars == <<wm, desk, fb, whist, frames>>
zvars == <<zo, zlast>>
pavars == <<pa, pahist>>
s3vars == <<wl, scr, cur, ms, ata, clk>>
s4vars == <<par, sp, ar, pk, rt>>
vars == <<fsvars, kbdvars, guivars, zvars, pavars, s3vars, s4vars>>

\* What the actions of one part leave alone.
nonfs == <<kbdvars, guivars, zvars, pavars, s3vars, s4vars>>
nonkbd == <<fsvars, guivars, zvars, pavars, s3vars, s4vars>>
nongui == <<fsvars, kbdvars, zvars, pavars, s3vars, s4vars>>
nonz == <<fsvars, kbdvars, guivars, pavars, s3vars, s4vars>>
nonpa == <<fsvars, kbdvars, guivars, zvars, s3vars, s4vars>>
olds == <<fsvars, kbdvars, guivars, zvars, pavars, s4vars>>
older == <<fsvars, kbdvars, guivars, zvars, pavars, s3vars>>
nonpar == <<older, sp, ar, pk, rt>>
nonsp == <<older, par, ar, pk, rt>>
nonar == <<older, par, sp, pk, rt>>
nonpk == <<older, par, sp, ar, rt>>
nonrt == <<older, par, sp, ar, pk>>
nonwl == <<olds, scr, cur, ms, ata, clk>>
nonscr == <<olds, wl, cur, ms, ata, clk>>
noncur == <<olds, wl, scr, ms, ata, clk>>
nonms == <<olds, wl, scr, cur, ata, clk>>
nonata == <<olds, wl, scr, cur, ms, clk>>
nonclk == <<olds, wl, scr, cur, ms, ata>>

Min(a, b) == IF a < b THEN a ELSE b
Max(a, b) == IF a > b THEN a ELSE b

\* FileType
FT_Empty == 0
FT_File == 1
FT_Directory == 2

\* File names are byte strings; bytes are 1, 2, 3 (0 is NUL).
Names == { <<1>>, <<1, 2>>, <<1, 2, 3>> }

\* File contents offered to write_file: empty, less than a sector, two
\* sectors with a partial last one, and one more sector than the cap allows.
Contents == { <<>>, <<1>>, <<2, 1, 2>>, <<1, 1, 1, 1, 1>> }

ZeroSector == [i \in 1..SECTOR_SIZE |-> 0]

\* DirEntry::set_name: the first MAX_FILENAME - 1 bytes, zero padded.
SetName(name) ==
    [i \in 1..MAX_FILENAME |->
        IF i <= Len(name) /\ i <= MAX_FILENAME - 1 THEN name[i] ELSE 0]

\* DirEntry::get_name: the bytes before the first NUL.
GetName(stored) ==
    LET nul == { i \in 1..MAX_FILENAME : stored[i] = 0 }
        n == IF nul = {} THEN MAX_FILENAME
             ELSE (CHOOSE i \in nul : \A j \in nul : i <= j) - 1
    IN  SubSeq(stored, 1, n)

\* DirEntry::empty
EmptyEntry ==
    [name |-> SetName(<<>>), file_type |-> FT_Empty, size |-> 0,
     first_block |-> 0, block_count |-> 0]

\* Superblock::new
NewSuperblock ==
    [magic |-> TRUE, total_blocks |-> TOTAL_BLOCKS, free_blocks |-> TOTAL_BLOCKS,
     used_entries |-> 0]

ZeroFat == [b \in 0..(FAT_BITS - 1) |-> FALSE]
ZeroEntries == [e \in 0..(MAX_ENTRIES - 1) |-> EmptyEntry]

\* The sectors of the data region that a file's run can touch.
DataSectors == 0..(FAT_BITS + BLOCKS_PER_FILE - 2)

\* MountedDrive::allocate_block: the first clear bit, set, free_blocks
\* decremented (saturating); none when every bit is set.
AllocateBlock(fs) ==
    LET clear == { b \in 0..(FAT_BITS - 1) : ~fs.fat[b] }
    IN  IF clear = {} THEN [fs |-> fs, some |-> FALSE, block |-> 0]
        ELSE LET b == CHOOSE x \in clear : \A y \in clear : x <= y
             IN  [fs |-> [fs EXCEPT !.fat[b] = TRUE,
                                    !.sb.free_blocks = Max(@ - 1, 0)],
                  some |-> TRUE, block |-> b]

\* MountedDrive::free_block: clears the bit and increments free_blocks
\* whenever the block lies inside the bitmap, set or not.
FreeBlock(fs, block) ==
    IF block < FAT_BITS
    THEN [fs EXCEPT !.fat[block] = FALSE, !.sb.free_blocks = @ + 1]
    ELSE fs

\* for i in 0..count { free_block(first + i) }
RECURSIVE FreeRun(_, _, _)
FreeRun(fs, first, count) ==
    IF count = 0 THEN fs
    ELSE FreeRun(FreeBlock(fs, first), first + 1, count - 1)

\* for _ in 1..blocks_needed { let _ = allocate_block(); }
RECURSIVE AllocateMore(_, _)
AllocateMore(fs, n) ==
    IF n <= 0 THEN fs ELSE AllocateMore(AllocateBlock(fs).fs, n - 1)

\* MountedDrive::find_free_entry
FindFreeEntry(fs) ==
    LET free == { e \in 0..(MAX_ENTRIES - 1) : fs.entries[e].file_type = FT_Empty }
    IN  IF free = {} THEN -1 ELSE CHOOSE x \in free : \A y \in free : x <= y

\* MountedDrive::find_entry
FindEntry(fs, name) ==
    LET hit == { e \in 0..(MAX_ENTRIES - 1) :
                   /\ fs.entries[e].file_type # FT_Empty
                   /\ GetName(fs.entries[e].name) = name }
    IN  IF hit = {} THEN -1 ELSE CHOOSE x \in hit : \A y \in hit : x <= y

\* (data.len() + SECTOR_SIZE - 1) / SECTOR_SIZE
BlocksNeeded(data) == (Len(data) + SECTOR_SIZE - 1) \div SECTOR_SIZE

\* The i-th sector image of data: data[start..end], zero padded.
SectorOf(data, i) ==
    [k \in 1..SECTOR_SIZE |->
        IF i * SECTOR_SIZE + k <= Len(data) THEN data[i * SECTOR_SIZE + k] ELSE 0]

\* What save_to_disk writes: the superblock, the bitmap and the directory.
MetaOf(fs) == [sb |-> fs.sb, fat |-> fs.fat, entries |-> fs.entries]

\* MountedDrive::save_to_disk: the first write_sector_to that fails aborts.
SaveToDisk(fs, d, ok) ==
    IF ok THEN [d EXCEPT !.meta = MetaOf(fs)] ELSE d

\* MountedDrive::format (the in-memory part)
Format(fs) == [fs EXCEPT !.sb = NewSuperblock, !.fat = ZeroFat, !.entries = ZeroEntries]

\* MountedDrive::load_from_disk
LoadFromDisk(fs, d) ==
    [fs EXCEPT !.sb = d.meta.sb, !.fat = d.meta.fat, !.entries = d.meta.entries]

\* MountedDrive::new
NewDrive ==
    [sb |-> NewSuperblock, fat |-> ZeroFat, entries |-> ZeroEntries,
     initialized |-> FALSE]

\* MountedDrive::init
MountResult(fs, d, ok) ==
    IF ok /\ d.meta.sb.magic
    THEN [fs |-> [LoadFromDisk(fs, d) EXCEPT !.initialized = TRUE],
          disk |-> d, ret |-> TRUE]
    ELSE [fs |-> [Format(fs) EXCEPT !.initialized = IF ok THEN TRUE ELSE @],
          disk |-> SaveToDisk(Format(fs), d, ok), ret |-> ok]

\* MountedDrive::create_file / create_directory
CreateResult(fs, d, name, ftype, ok) ==
    IF FindEntry(fs, name) # -1 THEN [fs |-> fs, disk |-> d, ret |-> FALSE]
    ELSE IF FindFreeEntry(fs) = -1 THEN [fs |-> fs, disk |-> d, ret |-> FALSE]
    ELSE LET idx == FindFreeEntry(fs)
             fs2 == [fs EXCEPT
                        !.entries[idx] = [EmptyEntry EXCEPT !.name = SetName(name),
                                                            !.file_type = ftype],
                        !.sb.used_entries = @ + 1]
         IN  [fs |-> fs2, disk |-> SaveToDisk(fs2, d, ok), ret |-> TRUE]

\* The data sectors of write_file's loop; the run starts at first.
WriteData(d, first, data) ==
    [d EXCEPT !.data = [s \in DataSectors |->
        IF s >= first /\ s < first + BlocksNeeded(data)
        THEN SectorOf(data, s - first) ELSE d.data[s]]]

\* MountedDrive::write_file
WriteResult(fs, d, name, data, ok) ==
    LET idx == FindEntry(fs, name) IN
    IF idx = -1 THEN [fs |-> fs, disk |-> d, ret |-> FALSE]
    ELSE
    LET fs1 == FreeRun(fs, fs.entries[idx].first_block, fs.entries[idx].block_count)
        need == BlocksNeeded(data)
    IN
    IF need > BLOCKS_PER_FILE THEN [fs |-> fs1, disk |-> d, ret |-> FALSE]
    ELSE
    LET a == AllocateBlock(fs1) IN
    IF need > 0 /\ ~a.some THEN [fs |-> fs1, disk |-> d, ret |-> FALSE]
    ELSE
    LET first == IF need > 0 THEN a.block ELSE 0
        fs2 == IF need > 0 THEN AllocateMore(a.fs, need - 1) ELSE fs1
    IN
    IF need > 0 /\ ~ok THEN [fs |-> fs2, disk |-> d, ret |-> FALSE]
    ELSE
    LET d1 == WriteData(d, first, data)
        fs3 == [fs2 EXCEPT !.entries[idx].size = Len(data),
                           !.entries[idx].first_block = first,
                           !.entries[idx].block_count = need]
    IN  [fs |-> fs3, disk |-> SaveToDisk(fs3, d1, ok), ret |-> TRUE]

\* The bytes read_file collects from count sectors starting at sector.
RECURSIVE ReadBlocks(_, _, _, _)
ReadBlocks(d, sector, count, remaining) ==
    IF count = 0 THEN <<>>
    ELSE LET to_read == Min(remaining, SECTOR_SIZE)
         IN  SubSeq(d.data[sector], 1, to_read)
             \o ReadBlocks(d, sector + 1, count - 1, remaining - to_read)

\* MountedDrive::read_file: [some |-> FALSE] is None.
ReadFile(fs, d, name, ok) ==
    LET idx == FindEntry(fs, name) IN
    IF idx = -1 THEN [some |-> FALSE, data |-> <<>>]
    ELSE IF fs.entries[idx].file_type # FT_File THEN [some |-> FALSE, data |-> <<>>]
    ELSE IF fs.entries[idx].size = 0 THEN [some |-> TRUE, data |-> <<>>]
    ELSE IF fs.entries[idx].block_count > 0 /\ ~ok THEN [some |-> FALSE, data |-> <<>>]
    ELSE [some |-> TRUE,
          data |-> ReadBlocks(d, fs.entries[idx].first_block,
                              fs.entries[idx].block_count, fs.entries[idx].size)]

\* MountedDrive::delete_file
DeleteResult(fs, d, name, ok) ==
    LET idx == FindEntry(fs, name) IN
    IF idx = -1 THEN [fs |-> fs, disk |-> d, ret |-> FALSE]
    ELSE LET fs1 == FreeRun(fs, fs.entries[idx].first_block, fs.entries[idx].block_count)
             fs2 == [fs1 EXCEPT !.entries[idx] = EmptyEntry,
                                !.sb.used_entries = Max(@ - 1, 0)]
         IN  [fs |-> fs2, disk |-> SaveToDisk(fs2, d, ok), ret |-> TRUE]

\* free_blocks stays within the range the model enumerates.
InRange(fs) == fs.sb.free_blocks <= TOTAL_BLOCKS + MaxFreeDrift

\* A drive that has never held a filesystem.
BlankDisk ==
    [meta |-> [sb |-> [NewSuperblock EXCEPT !.magic = FALSE],
               fat |-> ZeroFat, entries |-> ZeroEntries],
     data |-> [s \in DataSectors |-> ZeroSector]]

\* The state after drives::init on first boot: the detected drive is
\* created by MountedDrive::new and initialised, which formats it.
MdInit ==
    /\ md = MountResult(NewDrive, BlankDisk, TRUE).fs
    /\ disk = MountResult(NewDrive, BlankDisk, TRUE).disk
    /\ ata_ok = TRUE
    /\ md_last = [op |-> "mount", name |-> <<>>, data |-> <<>>, ret |-> TRUE]
    /\ md_ops = 0

\* One more call fits in the run.
MdStep == md_ops < MaxOps /\ md_ops' = md_ops + 1

\* The environment: the drive stops or resumes answering status polls.
AtaFault ==
    /\ MdStep
    /\ ata_ok' = ~ata_ok
    /\ UNCHANGED <<md, disk, md_last, sfs, sfs_last, sfs_prev, sfs_ops, nonfs>>

\* A later boot: DriveManager::init runs MountedDrive::new and
\* MountedDrive::init on the same drive.
MdMount ==
    LET r == MountResult(NewDrive, disk, ata_ok) IN
    /\ MdStep
    /\ md' = r.fs
    /\ disk' = r.disk
    /\ md_last' = [op |-> "mount", name |-> <<>>, data |-> <<>>, ret |-> r.ret]
    /\ UNCHANGED <<ata_ok, sfs, sfs_last, sfs_prev, sfs_ops, nonfs>>

\* MountedDrive::format
MdFormat ==
    /\ MdStep
    /\ md' = Format(md)
    /\ disk' = SaveToDisk(Format(md), disk, ata_ok)
    /\ md_last' = [op |-> "format", name |-> <<>>, data |-> <<>>, ret |-> ata_ok]
    /\ UNCHANGED <<ata_ok, sfs, sfs_last, sfs_prev, sfs_ops, nonfs>>

MdCreateFile ==
    \E name \in Names :
        LET r == CreateResult(md, disk, name, FT_File, ata_ok) IN
        /\ MdStep
        /\ md' = r.fs
        /\ disk' = r.disk
        /\ md_last' = [op |-> "create_file", name |-> name, data |-> <<>>, ret |-> r.ret]
        /\ UNCHANGED <<ata_ok, sfs, sfs_last, sfs_prev, sfs_ops, nonfs>>

MdCreateDirectory ==
    \E name \in Names :
        LET r == CreateResult(md, disk, name, FT_Directory, ata_ok) IN
        /\ MdStep
        /\ md' = r.fs
        /\ disk' = r.disk
        /\ md_last' = [op |-> "create_directory", name |-> name, data |-> <<>>,
                       ret |-> r.ret]
        /\ UNCHANGED <<ata_ok, sfs, sfs_last, sfs_prev, sfs_ops, nonfs>>

MdWriteFile ==
    \E name \in Names, data \in Contents :
        LET r == WriteResult(md, disk, name, data, ata_ok) IN
        /\ InRange(r.fs)
        /\ MdStep
        /\ md' = r.fs
        /\ disk' = r.disk
        /\ md_last' = [op |-> "write_file", name |-> name, data |-> data, ret |-> r.ret]
        /\ UNCHANGED <<ata_ok, sfs, sfs_last, sfs_prev, sfs_ops, nonfs>>

MdDeleteFile ==
    \E name \in Names :
        LET r == DeleteResult(md, disk, name, ata_ok) IN
        /\ InRange(r.fs)
        /\ MdStep
        /\ md' = r.fs
        /\ disk' = r.disk
        /\ md_last' = [op |-> "delete_file", name |-> name, data |-> <<>>, ret |-> r.ret]
        /\ UNCHANGED <<ata_ok, sfs, sfs_last, sfs_prev, sfs_ops, nonfs>>

\* ------------------------------------------- SimpleFS (static FILESYSTEM)

\* SimpleFS::new, the value of the static FILESYSTEM; drivers::init never
\* calls filesystem::init, so use_disk keeps this value.
NewSimpleFS ==
    [sb |-> NewSuperblock, fat |-> ZeroFat, entries |-> ZeroEntries,
     initialized |-> FALSE, use_disk |-> FALSE]

\* SimpleFS::save_to_disk
SfsSaveToDisk(fs, d, ok) == IF ~fs.use_disk THEN d ELSE SaveToDisk(fs, d, ok)

\* SimpleFS::create_file / create_directory
SfsCreateResult(fs, d, name, ftype, ok) ==
    IF FindEntry(fs, name) # -1 THEN [fs |-> fs, disk |-> d, ret |-> FALSE]
    ELSE IF FindFreeEntry(fs) = -1 THEN [fs |-> fs, disk |-> d, ret |-> FALSE]
    ELSE LET idx == FindFreeEntry(fs)
             fs2 == [fs EXCEPT
                        !.entries[idx] = [EmptyEntry EXCEPT !.name = SetName(name),
                                                            !.file_type = ftype],
                        !.sb.used_entries = @ + 1]
         IN  [fs |-> fs2, disk |-> SfsSaveToDisk(fs2, d, ok), ret |-> TRUE]

\* SimpleFS::write_file
SfsWriteResult(fs, d, name, data, ok) ==
    LET idx == FindEntry(fs, name) IN
    IF idx = -1 THEN [fs |-> fs, disk |-> d, ret |-> FALSE]
    ELSE
    LET fs1 == FreeRun(fs, fs.entries[idx].first_block, fs.entries[idx].block_count)
        need == BlocksNeeded(data)
    IN
    IF need > BLOCKS_PER_FILE THEN [fs |-> fs1, disk |-> d, ret |-> FALSE]
    ELSE
    LET a == AllocateBlock(fs1) IN
    IF need > 0 /\ ~a.some THEN [fs |-> fs1, disk |-> d, ret |-> FALSE]
    ELSE
    LET first == IF need > 0 THEN a.block ELSE 0
        fs2 == IF need > 0 THEN AllocateMore(a.fs, need - 1) ELSE fs1
    IN
    IF fs.use_disk /\ need > 0 /\ ~ok THEN [fs |-> fs2, disk |-> d, ret |-> FALSE]
    ELSE
    LET d1 == IF fs.use_disk THEN WriteData(d, first, data) ELSE d
        fs3 == [fs2 EXCEPT !.entries[idx].size = Len(data),
                           !.entries[idx].first_block = first,
                           !.entries[idx].block_count = need]
    IN  [fs |-> fs3, disk |-> SfsSaveToDisk(fs3, d1, ok), ret |-> TRUE]

\* SimpleFS::read_file
SfsReadFile(fs, d, name, ok) ==
    LET idx == FindEntry(fs, name) IN
    IF idx = -1 THEN [some |-> FALSE, data |-> <<>>]
    ELSE IF fs.entries[idx].file_type # FT_File THEN [some |-> FALSE, data |-> <<>>]
    ELSE IF fs.entries[idx].size = 0 THEN [some |-> TRUE, data |-> <<>>]
    ELSE IF ~fs.use_disk THEN [some |-> TRUE, data |-> <<>>]
    ELSE IF fs.entries[idx].block_count > 0 /\ ~ok THEN [some |-> FALSE, data |-> <<>>]
    ELSE [some |-> TRUE,
          data |-> ReadBlocks(d, fs.entries[idx].first_block,
                              fs.entries[idx].block_count, fs.entries[idx].size)]

\* SimpleFS::delete_file
SfsDeleteResult(fs, d, name, ok) ==
    LET idx == FindEntry(fs, name) IN
    IF idx = -1 THEN [fs |-> fs, disk |-> d, ret |-> FALSE]
    ELSE LET fs1 == FreeRun(fs, fs.entries[idx].first_block, fs.entries[idx].block_count)
             fs2 == [fs1 EXCEPT !.entries[idx] = EmptyEntry,
                                !.sb.used_entries = Max(@ - 1, 0)]
         IN  [fs |-> fs2, disk |-> SfsSaveToDisk(fs2, d, ok), ret |-> TRUE]

SfsInit ==
    /\ sfs = NewSimpleFS
    /\ sfs_last = [op |-> "new", name |-> <<>>, data |-> <<>>, ret |-> TRUE,
                   fresh |-> FALSE]
    /\ sfs_prev = sfs_last
    /\ sfs_ops = 0

\* What every SimpleFS call leaves alone, and the call history.
SfsCall(r, op, name, data) ==
    /\ InRange(r.fs)
    /\ sfs_ops < MaxSfsOps
    /\ sfs_ops' = sfs_ops + 1
    /\ sfs' = r.fs
    /\ disk' = r.disk
    /\ sfs_prev' = sfs_last
    /\ sfs_last' = [op |-> op, name |-> name, data |-> data, ret |-> r.ret,
                    fresh |-> FindEntry(sfs, name) = -1]
    /\ UNCHANGED <<md, ata_ok, md_last, md_ops, nonfs>>

\* filesystem::create_file
SfsCreateFile ==
    \E name \in Names :
        SfsCall(SfsCreateResult(sfs, disk, name, FT_File, ata_ok),
                "create_file", name, <<>>)

\* filesystem::create_directory
SfsCreateDirectory ==
    \E name \in Names :
        SfsCall(SfsCreateResult(sfs, disk, name, FT_Directory, ata_ok),
                "create_directory", name, <<>>)

\* filesystem::write_file
SfsWriteFile ==
    \E name \in Names, data \in Contents :
        SfsCall(SfsWriteResult(sfs, disk, name, data, ata_ok),
                "write_file", name, data)

\* filesystem::delete_file
SfsDeleteFile ==
    \E name \in Names :
        SfsCall(SfsDeleteResult(sfs, disk, name, ata_ok), "delete_file", name, <<>>)

\* ------------------------------------------------ filesystem properties

\* Sum of block_count over the directory entries 0..n-1.
RECURSIVE SumBlockCount(_, _)
SumBlockCount(fs, n) ==
    IF n = 0 THEN 0 ELSE fs.entries[n - 1].block_count + SumBlockCount(fs, n - 1)

\* C1: for every non-empty content of at most BLOCKS_PER_FILE sectors and
\* every fresh file name n, after create_file(n) and write_file(n, content),
\* read_file(n) returns exactly content.
C1_WriteThenReadReturnsContent ==
    ( /\ sfs_prev.op = "create_file"
      /\ sfs_prev.fresh
      /\ sfs_last.op = "write_file"
      /\ sfs_last.name = sfs_prev.name
      /\ Len(sfs_last.data) > 0
      /\ Len(sfs_last.data) <= BLOCKS_PER_FILE * SECTOR_SIZE )
    => SfsReadFile(sfs, disk, sfs_last.name, ata_ok)
         = [some |-> TRUE, data |-> sfs_last.data]

\* C2: at all times, after every create, write, delete and format whether
\* it succeeded or failed, free_blocks plus the sum of block_count over all
\* directory entries equals total_blocks.
C2_FreePlusUsedIsTotal ==
    md.sb.free_blocks + SumBlockCount(md, MAX_ENTRIES) = md.sb.total_blocks

\* C3: after every mutation (create file, create directory, write, delete,
\* format) that returns success, the superblock, bitmap and directory on
\* disk equal the in-memory copies.
C3_DiskEqualsMemoryAfterSuccess ==
    ( /\ md_last.op \in {"create_file", "create_directory", "write_file",
                         "delete_file", "format"}
      /\ md_last.ret )
    => disk.meta = MetaOf(md)

\* The blocks whose bit a write_file step has set: set after the step and
\* clear once the file's old run had been freed.
WriteAllocated ==
    LET idx == FindEntry(md, md_last'.name)
        fs1 == FreeRun(md, md.entries[idx].first_block, md.entries[idx].block_count)
    IN {b \in 0 .. FAT_BITS - 1 : md'.fat[b] /\ ~fs1.fat[b]}

\* The run first_block .. first_block + block_count - 1 that the directory
\* entry of the written file records after the step.
WriteRecorded ==
    LET e == md'.entries[FindEntry(md, md_last'.name)]
    IN e.first_block .. e.first_block + e.block_count - 1

\* A step that is a successful write_file (a call, not a drive fault).
WriteSucceeds ==
    /\ md_ops' = md_ops + 1 /\ ata_ok' = ata_ok
    /\ md_last'.op = "write_file" /\ md_last'.ret

\* C11: after a successful write of N bytes, the blocks allocated to the
\* file are exactly the ceil(N / SECTOR_SIZE) contiguous blocks
\* first_block .. first_block + block_count - 1 recorded in its directory
\* entry, whatever the prior allocation pattern of the bitmap.
C11_AllocatedBlocksAreTheRecordedRun ==
    [][WriteSucceeds =>
          /\ Cardinality(WriteAllocated) = BlocksNeeded(md_last'.data)
          /\ WriteAllocated = WriteRecorded]_vars

\* A step that is a create_file or create_directory call.
CreateCalled ==
    /\ md_ops' = md_ops + 1 /\ ata_ok' = ata_ok
    /\ md_last'.op \in {"create_file", "create_directory"}

\* C12: for every name string, creating a file or directory fails (returns
\* false) if a matching name already exists (here: the call before it
\* created that very name) or no free directory entry is available.
C12_CreateFailsOnExistingNameOrFullDirectory ==
    [][CreateCalled =>
          /\ ( ( /\ md_last.op \in {"create_file", "create_directory"}
                 /\ md_last.ret
                 /\ md_last.name = md_last'.name ) => ~md_last'.ret )
          /\ ( FindFreeEntry(md) = -1 => ~md_last'.ret )]_vars

\* A step that is a successful mount of the drive (DriveManager::init on a
\* later boot) right after a write_file to a file that returned true.
RemountAfterWrite ==
    /\ md_ops' = md_ops + 1 /\ ata_ok' = ata_ok
    /\ md_last'.op = "mount" /\ md_last'.ret
    /\ md_last.op = "write_file" /\ md_last.ret
    /\ md.entries[FindEntry(md, md_last.name)].file_type = FT_File

\* C13: a file that was created and written successfully is still present
\* with the same content after the drive is remounted (mount executed again
\* on the same disk).
C13_ContentSurvivesRemount ==
    [][RemountAfterWrite =>
          ReadFile(md', disk', md_last.name, ata_ok')
              = [some |-> TRUE, data |-> md_last.data]]_vars

\* A step that is a mount (MountedDrive::new and init at a boot).
MountCalled ==
    md_ops' = md_ops + 1 /\ ata_ok' = ata_ok /\ md_last'.op = "mount"

\* C14: mount loads the bitmap and directory when the superblock magic
\* matches and formats otherwise: a drive whose on-disk superblock carries
\* the magic is never formatted by mount, neither on disk nor in the
\* tables that the mounted drive then works with.
C14_MountNeverFormatsAFormattedDrive ==
    [][(MountCalled /\ disk.meta.sb.magic) =>
          disk' = disk /\ MetaOf(md') = disk.meta]_vars

\* --------------------------------------------------------------- keyboard

\* Option::None in a ring slot or as the result of pop.
NoneKey == -1

\* SpecialKey::Up
KeyUp == 0

\* The rings and the mutex that guards each; KEYBOARD_STATE has its own.
Rings == {"INPUT", "SPECIAL", "COMBO"}
Locks == Rings \cup {"STATE"}

RingLen(R) == IF R = "INPUT" THEN INPUT_LEN ELSE KEY_LEN

\* InputBuffer::new / SpecialKeyBuffer::new / CtrlComboBuffer::new
NewRing(R) ==
    [buffer |-> [i \in 0..(RingLen(R) - 1) |-> IF R = "INPUT" THEN 0 ELSE NoneKey],
     write_position |-> 0, read_position |-> 0]

\* Scancodes the controller delivers: A, B, Tab, Ctrl down, Ctrl up, Up
\* arrow, A released.
Scancodes == {30, 48, 15, 29, 157, 72, 158}

\* scancode & 0x80 != 0
IsRelease(sc) == sc >= 128
\* scancode & 0x7F
KeyCode(sc) == sc % 128

\* scancode_to_special
ScancodeToSpecial(sc) ==
    IF IsRelease(sc) THEN NoneKey
    ELSE IF sc = 72 THEN KeyUp
    ELSE NoneKey

\* scancode_to_char_swiss (rows for A, B and Tab)
ScancodeToCharSwiss(sc, shift) ==
    IF sc = 30 THEN (IF shift THEN 65 ELSE 97)
    ELSE IF sc = 48 THEN (IF shift THEN 66 ELSE 98)
    ELSE IF sc = 15 THEN 9
    ELSE NoneKey

\* The Ctrl+letter table of handle_scancode.
CtrlLetter(key_code) ==
    IF key_code = 30 THEN 97 ELSE NoneKey

\* (position + 1) % self.buffer.len()
NextPosition(R, pos) == (pos + 1) % RingLen(R)

\* A push that never finds the ring full.
RingFullNever(R, b) == FALSE

\* push: the ring is full when next_position == read_position
RingFull(R, b) == NextPosition(R, b.write_position) = b.read_position

\* The queued elements, oldest first: the slots from read_position up to
\* write_position.
RECURSIVE RingSlots(_, _, _)
RingSlots(R, b, pos) ==
    IF pos = b.write_position THEN <<>>
    ELSE <<b.buffer[pos]>> \o RingSlots(R, b, NextPosition(R, pos))

RingContents(R, b) == RingSlots(R, b, b.read_position)

KbdInit ==
    /\ kbd = [state |-> [shift_pressed |-> FALSE, ctrl_pressed |-> FALSE,
                         alt_pressed |-> FALSE],
              ring |-> [R \in Rings |-> NewRing(R)],
              lock |-> [L \in Locks |-> "free"]]
    /\ irq = [pc |-> "idle", scancode |-> 0, ring |-> "INPUT", val |-> NoneKey,
              count |-> 0]
    /\ gui = [pc |-> <<"STATE", "call">>, val |-> NoneKey, ctrl |-> FALSE]
    /\ khist = [q |-> [R \in Rings |-> <<>>], arrived |-> <<>>, delivered |-> <<>>,
                last_push |-> [done |-> FALSE, full |-> FALSE,
                               ring |-> "INPUT", queued |-> 0, dropped |-> FALSE,
                               before |-> NewRing("INPUT"),
                               after |-> NewRing("INPUT")]]

\* ---- the interrupt handler (cpu/idt.rs handle_keyboard_interrupt)

\* IRQ1 is raised while the main loop runs with interrupts enabled: the
\* handler reads the scancode and calls handle_scancode.
IrqEnter ==
    \E sc \in Scancodes :
        /\ irq.pc = "idle"
        /\ irq.count < MaxIrqs
        /\ irq' = [irq EXCEPT !.pc = "state_lock", !.scancode = sc,
                              !.count = @ + 1]
        /\ UNCHANGED <<kbd, gui, khist, nonkbd>>

\* KEYBOARD_STATE.lock(): a spin lock; it is taken or the handler spins.
IrqLockState ==
    /\ irq.pc = "state_lock"
    /\ IF kbd.lock["STATE"] = "free"
       THEN /\ kbd' = [kbd EXCEPT !.lock["STATE"] = "irq"]
            /\ irq' = [irq EXCEPT !.pc = "decode"]
       ELSE /\ irq' = [irq EXCEPT !.pc = "spin"]
            /\ UNCHANGED kbd
    /\ UNCHANGED <<gui, khist, nonkbd>>

\* handle_scancode from the modifier match to the choice of a ring.
IrqDecode ==
    LET sc == irq.scancode
        kc == KeyCode(sc)
        st == kbd.state
        unlocked == [kbd EXCEPT !.lock["STATE"] = "free"]
    IN
    /\ irq.pc = "decode"
    /\ IF kc \in {42, 54}
       THEN /\ kbd' = [unlocked EXCEPT !.state.shift_pressed = ~IsRelease(sc)]
            /\ irq' = [irq EXCEPT !.pc = "eoi"]
       ELSE IF kc = 29
       THEN /\ kbd' = [unlocked EXCEPT !.state.ctrl_pressed = ~IsRelease(sc)]
            /\ irq' = [irq EXCEPT !.pc = "eoi"]
       ELSE IF kc = 56
       THEN /\ kbd' = [unlocked EXCEPT !.state.alt_pressed = ~IsRelease(sc)]
            /\ irq' = [irq EXCEPT !.pc = "eoi"]
       ELSE /\ kbd' = unlocked
            /\ IF IsRelease(sc)
               THEN irq' = [irq EXCEPT !.pc = "eoi"]
               ELSE IF ScancodeToSpecial(sc) # NoneKey
               THEN irq' = [irq EXCEPT !.pc = "push_lock", !.ring = "SPECIAL",
                                       !.val = ScancodeToSpecial(sc)]
               ELSE IF st.ctrl_pressed /\ CtrlLetter(kc) # NoneKey
               THEN irq' = [irq EXCEPT !.pc = "push_lock", !.ring = "COMBO",
                                       !.val = CtrlLetter(kc)]
               ELSE IF ScancodeToCharSwiss(sc, st.shift_pressed) # NoneKey
               THEN irq' = [irq EXCEPT !.pc = "push_lock", !.ring = "INPUT",
                                       !.val = ScancodeToCharSwiss(sc, st.shift_pressed)]
               ELSE irq' = [irq EXCEPT !.pc = "eoi"]
    /\ UNCHANGED <<gui, khist, nonkbd>>

\* SPECIAL_KEY_BUFFER.lock() / CTRL_COMBO_BUFFER.lock() / INPUT_BUFFER.lock()
IrqLockRing ==
    /\ irq.pc = "push_lock"
    /\ IF kbd.lock[irq.ring] = "free"
       THEN /\ kbd' = [kbd EXCEPT !.lock[irq.ring] = "irq"]
            /\ irq' = [irq EXCEPT !.pc = "store"]
       ELSE /\ irq' = [irq EXCEPT !.pc = "spin"]
            /\ UNCHANGED kbd
    /\ UNCHANGED <<gui, khist, nonkbd>>

\* push: the full test and the store into buffer[write_position]
IrqStore ==
    LET R == irq.ring
        b == kbd.ring[R]
    IN
    /\ irq.pc = "store"
    /\ IF RingFull(R, b)
       THEN /\ irq' = [irq EXCEPT !.pc = "unlock"]
            /\ UNCHANGED kbd
       ELSE /\ kbd' = [kbd EXCEPT !.ring[R].buffer[b.write_position] = irq.val]
            /\ irq' = [irq EXCEPT !.pc = "publish"]
    /\ khist' = [khist EXCEPT !.last_push =
                    [done |-> FALSE, full |-> Len(khist.q[R]) = RingLen(R) - 1,
                     ring |-> R, queued |-> Len(khist.q[R]),
                     dropped |-> RingFull(R, b),
                     before |-> b, after |-> b]]
    /\ UNCHANGED <<gui, nonkbd>>

\* push: write_position = next_position
IrqPublish ==
    LET R == irq.ring
        b == kbd.ring[R]
    IN
    /\ irq.pc = "publish"
    /\ kbd' = [kbd EXCEPT !.ring[R].write_position = NextPosition(R, b.write_position)]
    /\ irq' = [irq EXCEPT !.pc = "unlock"]
    /\ khist' = [khist EXCEPT !.q[R] = Append(@, irq.val),
                              !.arrived = Append(@, <<R, irq.val>>)]
    /\ UNCHANGED <<gui, nonkbd>>

\* The guard returned by lock() is dropped at the end of the statement.
IrqUnlock ==
    /\ irq.pc = "unlock"
    /\ kbd' = [kbd EXCEPT !.lock[irq.ring] = "free"]
    /\ irq' = [irq EXCEPT !.pc = "eoi"]
    /\ khist' = [khist EXCEPT !.last_push.done = TRUE,
                              !.last_push.after = kbd.ring[irq.ring]]
    /\ UNCHANGED <<gui, nonkbd>>

\* pic::send_eoi(1) and the return from the interrupt
IrqEoi ==
    /\ irq.pc = "eoi"
    /\ irq' = [irq EXCEPT !.pc = "idle"]
    /\ UNCHANGED <<kbd, gui, khist, nonkbd>>

\* ---- the main loop's keyboard polling (gui/mod.rs run_gui)

\* The main loop runs only while no interrupt handler is active.
MainRuns == irq.pc = "idle"

\* The lock() that opens is_ctrl_pressed, try_read_char,
\* try_read_ctrl_combo and try_read_special_key.
MainLock ==
    /\ MainRuns
    /\ gui.pc[2] = "call"
    /\ kbd.lock[gui.pc[1]] = "free"
    /\ kbd' = [kbd EXCEPT !.lock[gui.pc[1]] = "main"]
    /\ gui' = [gui EXCEPT !.pc = <<gui.pc[1], "locked">>]
    /\ UNCHANGED <<irq, khist, nonkbd>>

\* is_ctrl_pressed: read ctrl_pressed, drop the guard; try_read_char is next.
MainReadCtrl ==
    /\ MainRuns
    /\ gui.pc = <<"STATE", "locked">>
    /\ kbd' = [kbd EXCEPT !.lock["STATE"] = "free"]
    /\ gui' = [gui EXCEPT !.ctrl = kbd.state.ctrl_pressed, !.pc = <<"INPUT", "call">>]
    /\ UNCHANGED <<irq, khist, nonkbd>>

\* pop: the empty test and the load (take) of buffer[read_position]
MainPopLoad ==
    LET R == gui.pc[1]
        b == kbd.ring[R]
    IN
    /\ MainRuns
    /\ R \in Rings
    /\ gui.pc[2] = "locked"
    /\ IF b.read_position = b.write_position
       THEN /\ gui' = [gui EXCEPT !.val = NoneKey, !.pc = <<R, "popped">>]
            /\ UNCHANGED kbd
       ELSE /\ gui' = [gui EXCEPT !.val = b.buffer[b.read_position],
                                  !.pc = <<R, "loaded">>]
            /\ kbd' = IF R = "INPUT" THEN kbd
                      ELSE [kbd EXCEPT !.ring[R].buffer[b.read_position] = NoneKey]
    /\ UNCHANGED <<irq, khist, nonkbd>>

\* pop: read_position = (read_position + 1) % len
MainPopAdvance ==
    LET R == gui.pc[1]
        b == kbd.ring[R]
    IN
    /\ MainRuns
    /\ gui.pc[2] = "loaded"
    /\ kbd' = [kbd EXCEPT !.ring[R].read_position = NextPosition(R, b.read_position)]
    /\ gui' = [gui EXCEPT !.pc = <<R, "popped">>]
    /\ khist' = [khist EXCEPT !.q[R] = Tail(@)]
    /\ UNCHANGED <<irq, nonkbd>>

\* Whether run_gui passes a character read from INPUT_BUFFER on.
PassedThrough(c) == (c >= 32 /\ c < 127) \/ c \in {10, 13, 8}

\* try_read_char returns: the guard is dropped and run_gui hands the
\* character to desktop.handle_keyboard_input, or goes on to the combos.
MainCharReturn ==
    /\ MainRuns
    /\ gui.pc = <<"INPUT", "popped">>
    /\ kbd' = [kbd EXCEPT !.lock["INPUT"] = "free"]
    /\ IF gui.val # NoneKey
       THEN /\ gui' = [gui EXCEPT !.pc = <<"SPECIAL", "call">>]
            /\ khist' = IF PassedThrough(gui.val)
                        THEN [khist EXCEPT !.delivered = Append(@, <<"INPUT", gui.val>>)]
                        ELSE khist
       ELSE /\ gui' = [gui EXCEPT !.pc = IF gui.ctrl THEN <<"COMBO", "call">>
                                         ELSE <<"SPECIAL", "call">>]
            /\ UNCHANGED khist
    /\ UNCHANGED <<irq, nonkbd>>

\* try_read_ctrl_combo returns.
MainComboReturn ==
    /\ MainRuns
    /\ gui.pc = <<"COMBO", "popped">>
    /\ kbd' = [kbd EXCEPT !.lock["COMBO"] = "free"]
    /\ gui' = [gui EXCEPT !.pc = <<"SPECIAL", "call">>]
    /\ khist' = IF gui.val # NoneKey
                THEN [khist EXCEPT !.delivered = Append(@, <<"COMBO", gui.val>>)]
                ELSE khist
    /\ UNCHANGED <<irq, nonkbd>>

\* try_read_special_key returns; the frame's keyboard polling is over and
\* the next frame starts with is_ctrl_pressed.
MainSpecialReturn ==
    /\ MainRuns
    /\ gui.pc = <<"SPECIAL", "popped">>
    /\ kbd' = [kbd EXCEPT !.lock["SPECIAL"] = "free"]
    /\ gui' = [gui EXCEPT !.pc = <<"STATE", "call">>]
    /\ khist' = IF gui.val # NoneKey
                THEN [khist EXCEPT !.delivered = Append(@, <<"SPECIAL", gui.val>>)]
                ELSE khist
    /\ UNCHANGED <<irq, nonkbd>>

\* -------------------------------------------------- keyboard properties

\* Whether s can be obtained from t by deleting elements.
RECURSIVE IsSubseq(_, _)
IsSubseq(s, t) ==
    IF s = <<>> THEN TRUE
    ELSE IF t = <<>> THEN FALSE
    ELSE IF Head(s) = Head(t) THEN IsSubseq(Tail(s), Tail(t))
    ELSE IsSubseq(s, Tail(t))

\* C4: no interrupt handler takes a mutex that the interrupted code might
\* hold: in every interleaving of the keyboard interrupt with the main
\* loop's reads (try_read_char, try_read_ctrl_combo, try_read_special_key,
\* is_ctrl_pressed) the handler runs to completion without waiting on a lock.
C4_HandlerNeverWaitsOnLock == irq.pc # "spin"

\* C5: on each input ring the consumer never reads a partially written
\* element (what it loads is the oldest queued element, and no push is in
\* progress on that ring), and a push onto a full ring drops the new element
\* and leaves head, tail and the queued elements unchanged.
C5_RingNeverPartialAndFullDrops ==
    /\ \A R \in Rings :
          gui.pc # <<R, "loaded">> => RingContents(R, kbd.ring[R]) = khist.q[R]
    /\ \A R \in Rings :
          gui.pc = <<R, "loaded">> =>
              /\ khist.q[R] # <<>>
              /\ gui.val = Head(khist.q[R])
              /\ gui.val # NoneKey
              /\ ~(irq.pc \in {"store", "publish", "unlock"} /\ irq.ring = R)
    /\ (khist.last_push.done /\ khist.last_push.full) =>
          khist.last_push.after = khist.last_push.before

\* A push found its ring full and returned, and later the main loop has
\* loaded an element from a ring.
C5_Witness ==
    /\ khist.last_push.done
    /\ khist.last_push.full
    /\ gui.pc[2] = "loaded"

\* C27: the character ring has capacity INPUT_LEN and the Ctrl-combo and
\* special-key rings have capacity KEY_LEN: the producer drops an element
\* only when that many elements are already queued.
C27_DropsOnlyAtCapacity ==
    khist.last_push.dropped =>
        khist.last_push.queued = RingLen(khist.last_push.ring)

\* C6: keystrokes are delivered to the focused window in arrival order, for
\* every sequence mixing character keys, special keys and Ctrl-letter
\* combos: what has been delivered is, in order, part of what arrived.
C6_DeliveredInArrivalOrder == IsSubseq(khist.delivered, khist.arrived)

\* ------------------------------------------- rectangles and the framebuffer

\* theme.rs colours, as their 24 red, green and blue bits (alpha is always FF).
COLOR_BACKGROUND == 0
COLOR_FOREGROUND == 16777215
COLOR_WINDOW_BG == 0
COLOR_WINDOW_BORDER == 16777215
COLOR_BUTTON_BG == 0
COLOR_BUTTON_BORDER == 16777215
COLOR_TASKBAR_BG == 1118481
COLOR_TITLEBAR == 3355494
\* builtin_apps.rs: the terminal's background 0C0C0C and input line 1A1A1A,
\* the documentation viewer's background 1A1B26.
TERMINAL_BG == 789516
TERMINAL_INPUT_BG == 1710618
DOCS_BG == 1710886
\* draw_xor_outline's xor_val, 00FFFFFF.
XOR_VAL == 16777215
\* theme.rs BORDER_WIDTH.
BORDER_WIDTH == 1

\* widgets.rs Rect.
MkRect(x, y, w, h) == [x |-> x, y |-> y, width |-> w, height |-> h]
Contains(r, px, py) ==
    px >= r.x /\ px < r.x + r.width /\ py >= r.y /\ py < r.y + r.height
Right(r) == r.x + r.width
Bottom(r) == r.y + r.height
Intersects(a, b) ==
    a.x < Right(b) /\ Right(a) > b.x /\ a.y < Bottom(b) /\ Bottom(a) > b.y

Pixels == (0 .. SCREEN_W - 1) \X (0 .. SCREEN_H - 1)
ScreenRect == MkRect(0, 0, SCREEN_W, SCREEN_H)
RectPixels(r) ==
    (Max(r.x, 0) .. Min(r.x + r.width, SCREEN_W) - 1)
        \X (Max(r.y, 0) .. Min(r.y + r.height, SCREEN_H) - 1)

\* What a run of drawing calls writes: a colour for each pixel it touches.
\* Over(a, b) is a followed by b.  Coordinates left of or above the screen
\* are taken as the wrapping usize arithmetic of the drawing loops leaves
\* them: a pixel is written when its true coordinates are on the screen.
NoPatch == [p \in {} |-> 0]
\* The element of a one-element set: Only({e : x \in {v}}) is e with x
\* standing for the value of v, which is computed once.
Only(S) == CHOOSE e \in S : TRUE
Over(a, b) == b @@ a
Paint(f, patch) == patch @@ f

\* draw_filled_rect.
Fill(r, c) == [p \in RectPixels(r) |-> c]

\* draw_rect_border: four bands of the given thickness along the edges.
RectBorder(r, c, t) ==
    [p \in RectPixels(MkRect(r.x, r.y, r.width, t))
             \cup RectPixels(MkRect(r.x, r.y + r.height - t, r.width, t))
             \cup RectPixels(MkRect(r.x, r.y, t, r.height))
             \cup RectPixels(MkRect(r.x + r.width - t, r.y, t, r.height)) |-> c]

\* draw_xor_outline: the dashed outline of r, two pixels on and two off along
\* each edge, the corners belonging to the top and bottom edges.
XorPixels(r) ==
    LET xs == {x \in r.x .. r.x + r.width - 1 : (x - r.x) % 4 < 2}
        ys == {y \in r.y + 1 .. r.y + r.height - 2 : (y - r.y) % 4 < 2}
    IN ((xs \X {r.y})
        \cup (IF r.height > 1 THEN xs \X {r.y + r.height - 1} ELSE {})
        \cup ({r.x} \X ys)
        \cup (IF r.width > 1 THEN {r.x + r.width - 1} \X ys ELSE {})) \cap Pixels
DrawXorOutline(f, r) ==
    Only({[p \in XorPixels(r) |-> XOR_VAL - x[p]] @@ x : x \in {f}})

\* ------------------------------------------------------------------ windows

\* A window: which native app it holds, its bounds, whether it is visible.
\* What an app draws inside its content area beyond the background fills
\* (text, glyphs) is left out of the framebuffer.
NoWindow == [kind |-> "none", bounds |-> MkRect(0, 0, 0, 0), visible |-> FALSE]

\* The start menu's entries, and where app.rs places each app's window
\* (create_terminal_app: 550 x 380 at 120, 80; create_docs_app: 500 x 400
\* at 180, 60): the two overlap, and only the terminal reaches the columns
\* of the start menu.
MenuItems == <<"terminal", "docs">>
AppRect(app) == IF app = "terminal" THEN MkRect(1, 1, 3, 3) ELSE MkRect(2, 0, 3, 3)

titlebar_bounds(w) == MkRect(w.bounds.x, w.bounds.y, w.bounds.width, TITLEBAR_HEIGHT)
close_button_bounds(w) ==
    MkRect(w.bounds.x + w.bounds.width - BUTTON_SIZE - CLOSE_INSET,
           w.bounds.y + CLOSE_INSET, BUTTON_SIZE, BUTTON_SIZE)
content_bounds(w) ==
    MkRect(w.bounds.x + BORDER_WIDTH, w.bounds.y + TITLEBAR_HEIGHT,
           w.bounds.width - BORDER_WIDTH * 2,
           w.bounds.height - TITLEBAR_HEIGHT - BORDER_WIDTH)
resize_handle_bounds(w) ==
    MkRect(w.bounds.x + w.bounds.width - HANDLE_SIZE,
           w.bounds.y + w.bounds.height - HANDLE_SIZE, HANDLE_SIZE, HANDLE_SIZE)

\* TerminalEmulator::render_input_line: the lowest rows of the content area.
InputLineRect(w) ==
    LET c == content_bounds(w)
    IN MkRect(c.x, c.y + c.height - INPUT_LINE_H, c.width, INPUT_LINE_H)
RenderInputLine(w) == Fill(InputLineRect(w), TERMINAL_INPUT_BG)

\* The native app's render into the content area.
NativeRender(w) ==
    IF w.kind = "terminal"
    THEN Over(Fill(content_bounds(w), TERMINAL_BG), RenderInputLine(w))
    ELSE Fill(content_bounds(w), DOCS_BG)

\* Window::render: background, border, title bar separator, close button,
\* content.  Nothing is clipped to a dirty rectangle.
WindowRender(w) ==
    IF ~w.visible THEN NoPatch
    ELSE LET sep == Fill(MkRect(w.bounds.x, w.bounds.y + TITLEBAR_HEIGHT,
                                w.bounds.width, 1), COLOR_WINDOW_BORDER)
             close == Over(Fill(close_button_bounds(w), COLOR_BUTTON_BG),
                           RectBorder(close_button_bounds(w), COLOR_BUTTON_BORDER, 1))
         IN Over(Over(Over(Over(Fill(w.bounds, COLOR_WINDOW_BG),
                                RectBorder(w.bounds, COLOR_WINDOW_BORDER, BORDER_WIDTH)),
                           sep),
                      close),
                 NativeRender(w))

\* Window::render_content_only and render_typing_area_only.
RenderContentOnly(w) == IF ~w.visible THEN NoPatch ELSE NativeRender(w)
RenderTypingAreaOnly(w) ==
    IF ~w.visible THEN NoPatch
    ELSE IF w.kind = "terminal" THEN RenderInputLine(w)
    ELSE RenderContentOnly(w)

\* ------------------------------------------------------------------ z-order

\* bring_to_front with a swap in place of the shift.
BringToFrontSwap(z, n, window_idx) ==
    LET P == {i \in 0 .. n - 1 : z[i] = window_idx}
    IN IF P = {} THEN z
       ELSE LET p == CHOOSE i \in P : \A j \in P : i <= j
            IN [i \in DOMAIN z |->
                   IF i = p THEN z[n - 1]
                   ELSE IF i = n - 1 THEN window_idx
                   ELSE z[i]]

\* WindowManager::bring_to_front on z_order[0 .. window_count): find the
\* first position holding window_idx, shift what follows down by one, put
\* window_idx last.  Without such a position nothing changes.
BringToFront(z, n, window_idx) ==
    LET P == {i \in 0 .. n - 1 : z[i] = window_idx}
    IN IF P = {} THEN z
       ELSE LET p == CHOOSE i \in P : \A j \in P : i <= j
            IN [i \in DOMAIN z |->
                   IF i >= p /\ i < n - 1 THEN z[i + 1]
                   ELSE IF i = n - 1 THEN window_idx
                   ELSE z[i]]

\* WindowManager::new: z_order is [0; MAX_WINDOWS], window_count 0.
NewZOrder == [i \in 0 .. MAX_WINDOWS - 1 |-> 0]

ZInit ==
    /\ zo = [z_order |-> NewZOrder, window_count |-> 0]
    /\ zlast = [called |-> FALSE, idx |-> 0, before |-> NewZOrder]

\* add_window, add_app, add_native_app: the new id goes on top.
ZAddWindow ==
    /\ zo.window_count < MAX_WINDOWS
    /\ zo' = [z_order |-> [zo.z_order EXCEPT ![zo.window_count] = zo.window_count],
              window_count |-> zo.window_count + 1]
    /\ zlast' = [called |-> FALSE, idx |-> 0, before |-> zo.z_order]
    /\ UNCHANGED nonz

\* bring_to_front(window_idx), for any index of the windows array.
ZBringToFront ==
    \E window_idx \in 0 .. MAX_WINDOWS - 1 :
        /\ zo' = [zo EXCEPT !.z_order = BringToFront(zo.z_order, zo.window_count, window_idx)]
        /\ zlast' = [called |-> TRUE, idx |-> window_idx, before |-> zo.z_order]
        /\ UNCHANGED nonz

\* The first n entries of a z_order array, front last.
ZSeq(z, n) == [i \in 1 .. n |-> z[i - 1]]
\* A sequence without its occurrences of v.
Without(s, v) == SelectSeq(s, LAMBDA e : e # v)

\* C10: bring_to_front(id), for a window id of the z-order, yields a z-order
\* that is a permutation of the previous one, whose last element is id and
\* in which all other windows keep their relative order.
C10_BringToFrontPermutation ==
    (zlast.called /\ zlast.idx < zo.window_count) =>
        LET n == zo.window_count
            before == ZSeq(zlast.before, n)
            after == ZSeq(zo.z_order, n)
        IN /\ {after[i] : i \in 1 .. n} = {before[i] : i \in 1 .. n}
           /\ \A i, j \in 1 .. n : i # j => after[i] # after[j]
           /\ after[n] = zlast.idx
           /\ Without(after, zlast.idx) = Without(before, zlast.idx)
           /\ \A i \in n .. MAX_WINDOWS - 1 : zo.z_order[i] = zlast.before[i]

\* bring_to_front has moved the lowest of at least three windows to the front.
C10_Witness ==
    /\ zlast.called
    /\ zo.window_count >= 3
    /\ zlast.before[0] = zlast.idx
    /\ zo.z_order[zo.window_count - 1] = zlast.idx
    /\ zo.z_order # zlast.before

\* ---------------------------------------------------------- window manager

\* Option<Rect>: None is the empty sequence, Some(r) is <<r>>.
NoDrag ==
    [mode |-> "None", window_id |-> 0, offset_x |-> 0, offset_y |-> 0,
     outline_rect |-> <<>>, original_bounds |-> <<>>]

\* DirtyRegion's variants.
NoRect == MkRect(0, 0, 0, 0)
FullWindow(i) == [kind |-> "FullWindow", id |-> i, rect |-> NoRect]
ContentOnly(i) == [kind |-> "ContentOnly", id |-> i, rect |-> NoRect]
TypingOnly(i) == [kind |-> "TypingOnly", id |-> i, rect |-> NoRect]
RectFromWindow(r, i) == [kind |-> "RectFromWindow", id |-> i, rect |-> r]
DirtyRect(r) == [kind |-> "Rect", id |-> 0, rect |-> r]

\* WindowManager::new.
NewWindowManager ==
    [windows |-> [i \in 0 .. MAX_WINDOWS - 1 |-> NoWindow],
     window_count |-> 0,
     z_order |-> NewZOrder,
     drag |-> NoDrag,
     last_mouse_down |-> FALSE,
     dirty_regions |-> <<>>]

\* add_native_app: None when the array is full, else the new window goes
\* into slot window_count and on top of the z-order.
AddNativeApp(w, app) ==
    IF w.window_count >= MAX_WINDOWS THEN w
    ELSE [w EXCEPT !.windows[w.window_count] =
                       [kind |-> app, bounds |-> AppRect(app), visible |-> TRUE],
                   !.z_order[w.window_count] = w.window_count,
                   !.window_count = w.window_count + 1]

\* The frontmost window in z-order among the visible ones, or -1.
TopmostVisible(w) ==
    LET V == {zi \in 0 .. w.window_count - 1 : w.windows[w.z_order[zi]].visible}
    IN IF V = {} THEN -1
       ELSE w.z_order[CHOOSE zi \in V : \A zj \in V : zj <= zi]

\* handle_keyboard_input: the key goes to z_order[window_count - 1] if that
\* window is visible, and a dirty region is queued for it; else it goes
\* nowhere.  `target` is the window that received it, or -1.
HandleKeyboardInput(w, key) ==
    IF w.window_count > 0 /\ w.windows[w.z_order[w.window_count - 1]].visible
    THEN LET topmost_idx == w.z_order[w.window_count - 1]
         IN [wm |-> [w EXCEPT !.dirty_regions =
                        Append(@, IF key \in {10, 13} THEN ContentOnly(topmost_idx)
                                  ELSE TypingOnly(topmost_idx))],
             target |-> topmost_idx]
    ELSE [wm |-> w, target |-> -1]

\* handle_special_key_input.
HandleSpecialKeyInput(w) ==
    IF w.window_count > 0 /\ w.windows[w.z_order[w.window_count - 1]].visible
    THEN LET topmost_idx == w.z_order[w.window_count - 1]
         IN [wm |-> [w EXCEPT !.dirty_regions = Append(@, ContentOnly(topmost_idx))],
             target |-> topmost_idx]
    ELSE [wm |-> w, target |-> -1]

\* is_over_resize_handle.
IsOverResizeHandle(w, mx, my) ==
    \E zi \in 0 .. w.window_count - 1 :
        /\ w.windows[w.z_order[zi]].visible
        /\ Contains(resize_handle_bounds(w.windows[w.z_order[zi]]), mx, my)

IsDragging(w) == w.drag.mode # "None"

\* The end of a drag or resize in handle_input (mouse released).
WmRelease(w, f, mx, my) ==
    LET id == w.drag.window_id
        b == w.windows[id].bounds
        is_on_top == w.z_order[w.window_count - 1] = id
        f1 == IF w.drag.outline_rect # <<>>
              THEN DrawXorOutline(f, w.drag.outline_rect[1]) ELSE f
        d1 == IF w.drag.original_bounds # <<>>
              THEN Append(w.dirty_regions, RectFromWindow(w.drag.original_bounds[1], id))
              ELSE w.dirty_regions
        newb == IF w.drag.mode = "Dragging"
                THEN [b EXCEPT !.x = mx - w.drag.offset_x, !.y = my - w.drag.offset_y]
                ELSE [b EXCEPT !.width = Max(mx - b.x, MIN_WIDTH),
                               !.height = Max(my - b.y, MIN_HEIGHT)]
        d2 == IF w.drag.mode = "Dragging" /\ ~is_on_top THEN d1
              ELSE Append(d1, FullWindow(id))
    IN [wm |-> [w EXCEPT !.windows[id].bounds = newb,
                         !.dirty_regions = d2,
                         !.drag.mode = "None",
                         !.drag.outline_rect = <<>>,
                         !.drag.original_bounds = <<>>],
        fb |-> f1, needs_redraw |-> TRUE, drag_started |-> FALSE]

\* A drag or resize going on in handle_input (mouse down): the outline is
\* erased and drawn again if it has changed.
WmTrack(w, f, mx, my) ==
    LET b == w.windows[w.drag.window_id].bounds
        new_rect == IF w.drag.mode = "Dragging"
                    THEN MkRect(mx - w.drag.offset_x, my - w.drag.offset_y,
                                b.width, b.height)
                    ELSE MkRect(b.x, b.y, Max(mx - b.x, MIN_WIDTH),
                                Max(my - b.y, MIN_HEIGHT))
        f1 == IF w.drag.outline_rect # <<>>
              THEN DrawXorOutline(f, w.drag.outline_rect[1]) ELSE f
    IN IF w.drag.outline_rect # <<new_rect>>
       THEN [wm |-> [w EXCEPT !.drag.outline_rect = <<new_rect>>],
             fb |-> DrawXorOutline(f1, new_rect),
             needs_redraw |-> FALSE, drag_started |-> FALSE]
       ELSE [wm |-> w, fb |-> f, needs_redraw |-> FALSE, drag_started |-> FALSE]

\* A new press in handle_input: the windows are tried from the front; the
\* first visible one that the point hits takes the press.
WmPress(w, f, mx, my) ==
    LET Hit(win) == \/ Contains(close_button_bounds(win), mx, my)
                    \/ Contains(resize_handle_bounds(win), mx, my)
                    \/ Contains(titlebar_bounds(win), mx, my)
                    \/ Contains(win.bounds, mx, my)
        H == {zi \in 0 .. w.window_count - 1 :
                 w.windows[w.z_order[zi]].visible /\ Hit(w.windows[w.z_order[zi]])}
    IN IF H = {}
       THEN [wm |-> w, fb |-> f, needs_redraw |-> FALSE, drag_started |-> FALSE]
       ELSE
       LET i == w.z_order[CHOOSE zi \in H : \A zj \in H : zj <= zi]
           win == w.windows[i]
           front == BringToFront(w.z_order, w.window_count, i)
           grab(mode, ox, oy) ==
               [mode |-> mode, window_id |-> i, offset_x |-> ox, offset_y |-> oy,
                outline_rect |-> <<win.bounds>>, original_bounds |-> <<win.bounds>>]
       IN IF Contains(close_button_bounds(win), mx, my)
          THEN [wm |-> [w EXCEPT !.dirty_regions = Append(@, DirtyRect(win.bounds)),
                                 !.windows[i].visible = FALSE],
                fb |-> f, needs_redraw |-> TRUE, drag_started |-> FALSE]
          ELSE IF Contains(resize_handle_bounds(win), mx, my)
          THEN [wm |-> [w EXCEPT !.z_order = front, !.drag = grab("Resizing", 0, 0)],
                fb |-> f, needs_redraw |-> FALSE, drag_started |-> TRUE]
          ELSE IF Contains(titlebar_bounds(win), mx, my)
          THEN [wm |-> [w EXCEPT !.z_order = front,
                                 !.drag = grab("Dragging", mx - win.bounds.x,
                                               my - win.bounds.y)],
                fb |-> f, needs_redraw |-> FALSE, drag_started |-> TRUE]
          \* the body: neither app has buttons or click handlers
          ELSE IF w.z_order[w.window_count - 1] # i
          THEN [wm |-> [w EXCEPT !.z_order = front,
                                 !.dirty_regions = Append(@, FullWindow(i))],
                fb |-> f, needs_redraw |-> TRUE, drag_started |-> FALSE]
          ELSE [wm |-> w, fb |-> f, needs_redraw |-> FALSE, drag_started |-> FALSE]

\* WindowManager::handle_input.
WmHandleInput(w, f, mx, my, mouse_down) ==
    LET mouse_pressed == mouse_down /\ ~w.last_mouse_down
        mouse_released == ~mouse_down /\ w.last_mouse_down
        w1 == [w EXCEPT !.last_mouse_down = mouse_down]
    IN IF mouse_released /\ w.drag.mode # "None" THEN WmRelease(w1, f, mx, my)
       ELSE IF w.drag.mode # "None" /\ mouse_down THEN WmTrack(w1, f, mx, my)
       ELSE IF mouse_pressed THEN WmPress(w1, f, mx, my)
       ELSE [wm |-> w1, fb |-> f, needs_redraw |-> FALSE, drag_started |-> FALSE]

\* ------------------------------------------------- desktop and start menu

TaskbarY == SCREEN_H - TASKBAR_HEIGHT
TaskbarRect == MkRect(0, TaskbarY, SCREEN_W, TASKBAR_HEIGHT)
StartRect ==
    MkRect(START_X0, TaskbarY + START_INSET, START_X1 - START_X0,
           TASKBAR_HEIGHT - 2 * START_INSET)
\* The part of the taskbar that a change of the start menu marks dirty.
StartDirtyRect == MkRect(0, TaskbarY, START_DIRTY_W, TASKBAR_HEIGHT)
\* StartMenu::new and position_above_taskbar.
MenuHeight == Len(MenuItems) * ITEM_HEIGHT + PADDING * 2
MenuBounds == MkRect(MENU_X, SCREEN_H - TASKBAR_HEIGHT - MenuHeight, MENU_WIDTH, MenuHeight)

\* Desktop::new; the cursor starts as the arrow.
NewDesktop ==
    [menu_visible |-> FALSE, hover_index |-> -1, last_mouse_down |-> FALSE,
     dirty_rects |-> <<>>, cursor_type |-> "Arrow"]

IsInStartButton(mx, my) ==
    /\ mx >= START_X0 /\ mx < START_X1
    /\ my >= TaskbarY + START_INSET /\ my < TaskbarY + TASKBAR_HEIGHT - START_INSET

\* StartMenu::handle_input on a visible menu: the menu's new visibility and
\* hover index, whether it asks for a redraw, and the app clicked ("" if none).
StartMenuHandleInput(d, mx, my, mouse_pressed) ==
    IF Contains(MenuBounds, mx, my)
    THEN LET rel == my - MenuBounds.y - PADDING
             index == IF rel < 0 THEN Len(MenuItems) ELSE rel \div ITEM_HEIGHT
         IN IF index < Len(MenuItems)
            THEN IF mouse_pressed
                 THEN [visible |-> FALSE, hover |-> -1, redraw |-> TRUE,
                       app |-> MenuItems[index + 1]]
                 ELSE [visible |-> TRUE, hover |-> index,
                       redraw |-> d.hover_index # index, app |-> ""]
            ELSE [visible |-> TRUE, hover |-> -1,
                  redraw |-> d.hover_index # -1, app |-> ""]
    ELSE IF mouse_pressed
         THEN [visible |-> FALSE, hover |-> -1, redraw |-> TRUE, app |-> ""]
         ELSE [visible |-> TRUE, hover |-> d.hover_index, redraw |-> FALSE, app |-> ""]

\* StartMenu::render.
MenuRender(d) ==
    IF ~d.menu_visible THEN NoPatch
    ELSE Over(Over(Fill(MenuBounds, COLOR_WINDOW_BG),
                   RectBorder(MenuBounds, COLOR_WINDOW_BORDER, 1)),
              IF d.hover_index # -1
              THEN Fill(MkRect(MENU_X + PADDING,
                               MenuBounds.y + PADDING + d.hover_index * ITEM_HEIGHT,
                               MENU_WIDTH - PADDING * 2, ITEM_HEIGHT - ITEM_GAP),
                        COLOR_TITLEBAR)
              ELSE NoPatch)

\* Desktop::render_taskbar: always the whole taskbar.
TaskbarRender(d) ==
    Over(Over(Over(Fill(TaskbarRect, COLOR_TASKBAR_BG),
                   Fill(MkRect(0, TaskbarY, SCREEN_W, 1), COLOR_FOREGROUND)),
              IF d.menu_visible THEN Fill(StartRect, COLOR_TITLEBAR) ELSE NoPatch),
         RectBorder(StartRect, COLOR_FOREGROUND, 1))

\* Desktop::handle_input below the start menu: the start button, else the
\* window manager.
DesktopClick(d, w, f, mx, my, mouse_down, mouse_pressed) ==
    IF mouse_pressed /\ IsInStartButton(mx, my)
    THEN [desk |-> [d EXCEPT !.dirty_rects = @ \o <<MenuBounds, StartDirtyRect>>,
                             !.menu_visible = ~d.menu_visible,
                             !.hover_index = IF d.menu_visible THEN -1 ELSE @],
          wm |-> w, fb |-> f, needs_redraw |-> TRUE, drag_started |-> FALSE]
    ELSE Only({[desk |-> d, wm |-> r.wm, fb |-> r.fb,
                needs_redraw |-> r.needs_redraw, drag_started |-> r.drag_started] :
                  r \in {WmHandleInput(w, f, mx, my, mouse_down)}})

\* Desktop::handle_input.  A click that the start menu takes never reaches
\* the window manager, whose last_mouse_down then keeps its old value.
DesktopHandleInput(d, w, f, mx, my, mouse_down) ==
    LET mouse_pressed == mouse_down /\ ~d.last_mouse_down
        d1 == [d EXCEPT !.last_mouse_down = mouse_down]
    IN IF ~d.menu_visible
       THEN DesktopClick(d1, w, f, mx, my, mouse_down, mouse_pressed)
       ELSE
       LET m == StartMenuHandleInput(d, mx, my, mouse_pressed)
           d2 == [d1 EXCEPT !.menu_visible = m.visible, !.hover_index = m.hover]
       IN IF m.app # ""
          \* launch_app: the menu's and the new window's rectangles are dirty
          THEN [desk |-> [d2 EXCEPT !.dirty_rects = @ \o <<MenuBounds, AppRect(m.app)>>],
                wm |-> AddNativeApp(w, m.app), fb |-> f,
                needs_redraw |-> TRUE, drag_started |-> FALSE]
          ELSE IF ~m.visible
          THEN [desk |-> [d2 EXCEPT !.dirty_rects = @ \o <<MenuBounds, StartDirtyRect>>],
                wm |-> w, fb |-> f, needs_redraw |-> TRUE, drag_started |-> FALSE]
          ELSE IF m.redraw
          THEN [desk |-> d2, wm |-> w, fb |-> Paint(f, MenuRender(d2)),
                needs_redraw |-> FALSE, drag_started |-> FALSE]
          ELSE DesktopClick(d2, w, f, mx, my, mouse_down, mouse_pressed)

\* --------------------------------------------------------------- compositor

\* WindowManager::render: every window, back to front.
RECURSIVE WmRender(_, _)
WmRender(w, zi) ==
    IF zi >= w.window_count THEN NoPatch
    ELSE Over(WindowRender(w.windows[w.z_order[zi]]), WmRender(w, zi + 1))

\* Desktop::render, the full redraw.
DesktopRender(d, w) ==
    Over(Over(Over(Fill(ScreenRect, COLOR_BACKGROUND), TaskbarRender(d)),
              WmRender(w, 0)),
         MenuRender(d))

\* The loops of render_dirty_regions over z_order[zi .. hi]: each visible
\* window that intersects rect and has not been rendered in full is
\* rendered in full.
RECURSIVE RenderRange(_, _, _, _, _)
RenderRange(w, zi, hi, rect, acc) ==
    IF zi > hi THEN acc
    ELSE LET i == w.z_order[zi]
             win == w.windows[i]
         IN IF i \notin acc.full /\ win.visible /\ Intersects(win.bounds, rect)
            THEN Only({RenderRange(w, zi + 1, hi, rect, next) :
                          next \in {[acc EXCEPT !.patch = Over(@, WindowRender(win)),
                                                !.full = @ \cup {i}]}})
            ELSE RenderRange(w, zi + 1, hi, rect, acc)

\* WindowManager::render_dirty_regions from the k-th region on.  acc holds
\* what has been written and the rendered_full, rendered_content and
\* rendered_typing flags.
RECURSIVE WmRenderDirty(_, _, _, _)
WmRenderDirty(w, dirty, k, acc) ==
    IF k > Len(dirty) THEN acc
    ELSE
    LET r == dirty[k]
        win == w.windows[r.id]
        S == {zi \in 0 .. w.window_count - 1 : w.z_order[zi] = r.id}
        source_z_idx == IF S = {} THEN 0 ELSE CHOOSE zi \in S : \A zj \in S : zi <= zj
        next ==
            IF r.kind = "TypingOnly"
            THEN IF r.id \notin acc.full \cup acc.content \cup acc.typing /\ win.visible
                 THEN [acc EXCEPT !.patch = Over(@, RenderTypingAreaOnly(win)),
                                  !.typing = @ \cup {r.id}]
                 ELSE acc
            ELSE IF r.kind = "ContentOnly"
            THEN IF r.id \notin acc.full \cup acc.content /\ win.visible
                 THEN [acc EXCEPT !.patch = Over(@, RenderContentOnly(win)),
                                  !.content = @ \cup {r.id}]
                 ELSE acc
            ELSE IF r.kind = "FullWindow"
            THEN IF r.id \notin acc.full /\ win.visible
                 THEN [acc EXCEPT !.patch = Over(@, WindowRender(win)),
                                  !.full = @ \cup {r.id}]
                 ELSE acc
            ELSE IF r.kind = "RectFromWindow"
            THEN RenderRange(w, 0, source_z_idx - 1, r.rect, acc)
            ELSE RenderRange(w, 0, w.window_count - 1, r.rect, acc)
    IN Only({WmRenderDirty(w, dirty, k + 1, n) : n \in {next}})

\* The background fills of Desktop::render_dirty_regions, one for each Rect
\* and RectFromWindow region from the k-th on.
RECURSIVE ClearRects(_, _)
ClearRects(dirty, k) ==
    IF k > Len(dirty) THEN NoPatch
    ELSE IF dirty[k].kind \in {"Rect", "RectFromWindow"}
         THEN Over(Fill(dirty[k].rect, COLOR_BACKGROUND), ClearRects(dirty, k + 1))
         ELSE ClearRects(dirty, k + 1)

\* Desktop::render_dirty_regions: what one pass over a dirty list writes, and
\* the rendered_full, rendered_content and rendered_typing flags at its end.
DesktopRenderDirtyPass(d, w, dirty) ==
    LET cleared == ClearRects(dirty, 1)
        taskbar == IF \E k \in 1 .. Len(dirty) :
                          /\ dirty[k].kind \in {"Rect", "RectFromWindow"}
                          /\ Intersects(dirty[k].rect, TaskbarRect)
                   THEN TaskbarRender(d) ELSE NoPatch
        windows == Only({WmRenderDirty(w, dirty, 1, acc) :
                            acc \in {[patch |-> Over(cleared, taskbar),
                                      full |-> {}, content |-> {}, typing |-> {}]}})
    IN [windows EXCEPT !.patch = Over(@, MenuRender(d))]

\* Desktop::render_dirty_regions: what one pass over a dirty list writes.
DesktopRenderDirty(d, w, dirty) == DesktopRenderDirtyPass(d, w, dirty).patch

\* The windows that a dirty list names with an entry of the kind.
Listed(dirty, kind) ==
    {dirty[k].id : k \in {j \in 1 .. Len(dirty) : dirty[j].kind = kind}}

\* Desktop::take_dirty_regions: the desktop's rectangles, then the window
\* manager's regions.
TakeDirtyRegions(d, w) ==
    [k \in 1 .. Len(d.dirty_rects) |-> DirtyRect(d.dirty_rects[k])] \o w.dirty_regions

\* The pixels of the region that a dirty entry names: the window's bounds
\* for FullWindow, its content area for ContentOnly and TypingOnly (which
\* holds the typing area), the rectangle for Rect and RectFromWindow.
RegionPixels(w, r) ==
    IF r.kind = "FullWindow" THEN RectPixels(w.windows[r.id].bounds)
    ELSE IF r.kind \in {"ContentOnly", "TypingOnly"}
    THEN RectPixels(content_bounds(w.windows[r.id]))
    ELSE RectPixels(r.rect)
ListedPixels(w, dirty) == UNION {RegionPixels(w, dirty[k]) : k \in 1 .. Len(dirty)}

\* ------------------------------------------------------ run_gui's main loop

\* The character that try_read_char may return: 'x'.
GuiKeys == {120}

NoKeys ==
    [char_given |-> FALSE, char_target |-> -1,
     special_given |-> FALSE, special_target |-> -1, expected |-> -1]
NoPass ==
    [ran |-> FALSE, stray |-> {}, full |-> {}, content |-> {}, typing |-> {},
     listed_full |-> {}, listed_content |-> {}, listed_typing |-> {}, shown |-> {}]
NoCycle == [fb0 |-> <<>>, done |-> FALSE, quiet |-> FALSE]

\* The desktop after Desktop::new and the initial desktop.render.
NewGui ==
    [wm |-> NewWindowManager,
     desk |-> NewDesktop,
     fb |-> Paint([p \in Pixels |-> COLOR_BACKGROUND],
                  DesktopRender(NewDesktop, NewWindowManager)),
     whist |-> [key |-> NoKeys, pass |-> NoPass, cycle |-> NoCycle]]

\* The keyboard part of one iteration of run_gui's loop on the desktop g:
\* `key` is what try_read_char returned (NoneKey for nothing), `special`
\* whether try_read_special_key returned a key.  The history records which
\* window each key went to and which one was the topmost visible window.
KeyStep(g, key, special) ==
    LET char_given == key # NoneKey /\ PassedThrough(key)
        k1 == IF char_given THEN HandleKeyboardInput(g.wm, key)
              ELSE [wm |-> g.wm, target |-> -1]
        k2 == IF special THEN HandleSpecialKeyInput(k1.wm)
              ELSE [wm |-> k1.wm, target |-> -1]
    IN [g EXCEPT !.wm = k2.wm,
                 !.whist.key = [char_given |-> char_given, char_target |-> k1.target,
                                special_given |-> special, special_target |-> k2.target,
                                expected |-> TopmostVisible(g.wm)],
                 !.whist.pass = NoPass,
                 !.whist.cycle = IF IsDragging(g.wm) THEN @ ELSE NoCycle]

\* What the frame draws after handle_input has returned h: the first
\* outline of a drag, the redraw at its end, nothing while it goes on, and
\* otherwise the dirty regions or a full redraw.  `pass` records whether the
\* compositor has processed a dirty list and which pixels it has written
\* outside the regions of the list.
FrameRedraw(h, was_dragging, cursor_changed) ==
    Only({
    LET taken_desk == [h.desk EXCEPT !.dirty_rects = <<>>]
        taken_wm == [h.wm EXCEPT !.dirty_regions = <<>>]
        partial ==
            Only({[desk |-> taken_desk, wm |-> taken_wm,
                   fb |-> Paint(h.fb, done.patch),
                   pass |-> [ran |-> TRUE,
                             stray |-> (DOMAIN done.patch) \ ListedPixels(h.wm, regions),
                             full |-> done.full, content |-> done.content,
                             typing |-> done.typing,
                             listed_full |-> Listed(regions, "FullWindow"),
                             listed_content |-> Listed(regions, "ContentOnly"),
                             listed_typing |-> Listed(regions, "TypingOnly"),
                             shown |-> {i \in 0 .. MAX_WINDOWS - 1 :
                                           h.wm.windows[i].visible}]] :
                     done \in {DesktopRenderDirtyPass(h.desk, h.wm, regions)}})
        full == [desk |-> taken_desk, wm |-> taken_wm,
                 fb |-> Paint(h.fb, DesktopRender(h.desk, h.wm)), pass |-> NoPass]
        nothing == [desk |-> h.desk, wm |-> h.wm, fb |-> h.fb, pass |-> NoPass]
    IN IF h.drag_started
       THEN IF h.wm.drag.outline_rect # <<>>
            THEN [nothing EXCEPT !.fb = DrawXorOutline(h.fb, h.wm.drag.outline_rect[1])]
            ELSE nothing
       ELSE IF was_dragging /\ ~IsDragging(h.wm)
       THEN IF ~h.needs_redraw THEN nothing
            ELSE IF regions = <<>> THEN full ELSE partial
       ELSE IF IsDragging(h.wm) THEN nothing
       ELSE IF regions # <<>> THEN partial
       ELSE IF h.needs_redraw \/ cursor_changed THEN full
       ELSE [nothing EXCEPT !.desk = taken_desk, !.wm = taken_wm]
    : regions \in {TakeDirtyRegions(h.desk, h.wm)}})

\* The mouse part of the iteration, from mouse::get_position to
\* cursor::show_at, with mx, my, mouse_down the mouse state.  The history
\* records what the compositor wrote and whether a drag of a window has
\* come back to where it began (and no key was handed over on the way).
MouseStep(g, mx, my, mouse_down) ==
    LET was_dragging == IsDragging(g.wm)
        new_cursor_type ==
            IF IsOverResizeHandle(g.wm, mx, my) /\ ~IsDragging(g.wm)
            THEN "ResizeNWSE" ELSE "Arrow"
        cursor_changed == new_cursor_type # g.desk.cursor_type
        keyed == g.whist.key.char_given \/ g.whist.key.special_given
        id == g.wm.drag.window_id
        cycle(h) ==
            IF h.drag_started /\ h.wm.drag.mode = "Dragging"
            THEN [fb0 |-> <<g.fb>>, done |-> FALSE, quiet |-> ~keyed]
            ELSE IF g.wm.drag.mode = "Dragging" /\ ~IsDragging(h.wm)
            THEN [fb0 |-> g.whist.cycle.fb0,
                  done |-> <<h.wm.windows[id].bounds>> = g.wm.drag.original_bounds,
                  quiet |-> g.whist.cycle.quiet /\ ~keyed]
            ELSE IF IsDragging(h.wm)
            THEN [g.whist.cycle EXCEPT !.quiet = @ /\ ~keyed]
            ELSE NoCycle
        finish(h) ==
            Only({[wm |-> out.wm, desk |-> out.desk, fb |-> out.fb,
                   whist |-> [key |-> NoKeys, pass |-> out.pass, cycle |-> cycle(h)]] :
                     out \in {FrameRedraw(h, was_dragging, cursor_changed)}})
    IN Only({finish(h) :
                h \in {DesktopHandleInput([g.desk EXCEPT !.cursor_type = new_cursor_type],
                                          g.wm, g.fb, mx, my, mouse_down)}})

\* Clicks that open the terminal and then the documentation viewer from the
\* start menu: press and release on the start button, press and release on
\* the entry, twice.
OpenBoth ==
    <<<<0, SCREEN_H - 1, TRUE>>, <<0, SCREEN_H - 1, FALSE>>,
      <<0, MenuBounds.y, TRUE>>, <<0, MenuBounds.y, FALSE>>,
      <<0, SCREEN_H - 1, TRUE>>, <<0, SCREEN_H - 1, FALSE>>,
      <<0, MenuBounds.y + ITEM_HEIGHT, TRUE>>, <<0, MenuBounds.y + ITEM_HEIGHT, FALSE>>>>

\* The desktop after the first n of a list of frames without keys.
RECURSIVE RunFrames(_, _, _)
RunFrames(g, inputs, n) ==
    IF n = 0 THEN g
    ELSE Only({MouseStep(k, inputs[n][1], inputs[n][2], inputs[n][3]) :
                  k \in {Only({KeyStep(r, NoneKey, FALSE) :
                                  r \in {RunFrames(g, inputs, n - 1)}})}})

\* The desktop as run_gui has it when it enters its loop.
GuiInit ==
    /\ wm = NewGui.wm /\ desk = NewGui.desk /\ fb = NewGui.fb /\ whist = NewGui.whist
    /\ frames = [count |-> 0, pc |-> "keys"]

\* The desktop after the frames that open the Terminal and then the
\* Documentation window.
GuiInitOpened ==
    /\ \E g \in {RunFrames(NewGui, OpenBoth, Len(OpenBoth))} :
          wm = g.wm /\ desk = g.desk /\ fb = g.fb /\ whist = g.whist
    /\ frames = [count |-> 0, pc |-> "keys"]

\* Clicks that open n windows from the start menu, the Terminal and the
\* Documentation viewer in turn: press and release on the start button,
\* press and release on the entry.
RECURSIVE OpenMany(_)
OpenMany(n) ==
    IF n = 0 THEN <<>>
    ELSE LET y == MenuBounds.y + ((n - 1) % Len(MenuItems)) * ITEM_HEIGHT
         IN OpenMany(n - 1) \o
            <<<<0, SCREEN_H - 1, TRUE>>, <<0, SCREEN_H - 1, FALSE>>,
              <<0, y, TRUE>>, <<0, y, FALSE>>>>

\* The desktop after MAX_WINDOWS windows have been opened; the loop is
\* followed for one more frame from there.
GuiInitFull ==
    /\ \E g \in {RunFrames(NewGui, OpenMany(MAX_WINDOWS), 4 * MAX_WINDOWS)} :
          wm = g.wm /\ desk = g.desk /\ fb = g.fb /\ whist = g.whist
    /\ frames = [count |-> MaxFrames - 1, pc |-> "keys"]

Gui == [wm |-> wm, desk |-> desk, fb |-> fb, whist |-> whist]

\* run_gui polls the keyboard and routes what it gets.
GuiPollKeys ==
    /\ frames.count < MaxFrames
    /\ frames.pc = "keys"
    /\ \E key \in GuiKeys \cup {NoneKey}, special \in BOOLEAN :
          \E g \in {KeyStep(Gui, key, special)} :
              wm' = g.wm /\ desk' = g.desk /\ fb' = g.fb /\ whist' = g.whist
    /\ frames' = [frames EXCEPT !.pc = "mouse"]
    /\ UNCHANGED nongui

\* run_gui reads the mouse, handles it and redraws.
GuiHandleMouse ==
    /\ frames.pc = "mouse"
    /\ \E mx \in 0 .. SCREEN_W - 1, my \in 0 .. SCREEN_H - 1, mouse_down \in BOOLEAN :
          \E g \in {MouseStep(Gui, mx, my, mouse_down)} :
              wm' = g.wm /\ desk' = g.desk /\ fb' = g.fb /\ whist' = g.whist
    /\ frames' = [count |-> frames.count + 1, pc |-> "keys"]
    /\ UNCHANGED nongui

\* ------------------------------------------------------- window properties

\* C7: every character or special key handed to the window manager is
\* delivered to the topmost visible window (the frontmost window in z-order
\* among the visible ones) and to no other window.
C7_KeysGoToTopmostVisible ==
    /\ whist.key.char_given => whist.key.char_target = whist.key.expected
    /\ whist.key.special_given => whist.key.special_target = whist.key.expected

\* C8: after the compositor has processed a dirty list, no pixel outside
\* the union of the listed regions has been written by the compositor.
C8_WritesInsideListedRegions ==
    whist.pass.ran => whist.pass.stray = {}

\* C9: a full drag cycle (press on a window's title bar, any number of
\* moves, release at the original position), with no key handed over on the
\* way, leaves the framebuffer as it was before the press.
C9_DragCycleRestoresFramebuffer ==
    (whist.cycle.done /\ whist.cycle.quiet) => fb = whist.cycle.fb0[1]

\* C15: closing a window (close button or script close()) frees its slot:
\* after a close, a new window can be created even if MAX_WINDOWS windows
\* had been opened before.  Whenever some window has been closed, launching
\* an app from the start menu adds a window.
C15_CloseFreesSlot ==
    (\E i \in 0 .. wm.window_count - 1 : ~wm.windows[i].visible) =>
        \A k \in 1 .. Len(MenuItems) :
            AddNativeApp(wm, MenuItems[k]).window_count = wm.window_count + 1

\* ------------------------------------------------------------- script text

\* Texts are sequences of one-character strings.  char::is_alphabetic,
\* is_numeric and is_whitespace on the characters that the model's texts use.
Alphabetic ==
    {"a", "b", "c", "d", "e", "f", "g", "h", "i", "j", "k", "l", "m",
     "n", "o", "p", "q", "r", "s", "t", "u", "v", "w", "x", "y", "z",
     "A", "B", "C", "D", "E", "F", "G", "H", "I", "J", "K", "L", "M",
     "N", "O", "P", "Q", "R", "S", "T", "U", "V", "W", "X", "Y", "Z"}
Numeric == {"0", "1", "2", "3", "4", "5", "6", "7", "8", "9"}
Whitespace == {" ", "\n", "\t"}

\* peek: the character at byte offset pos, "" for None at the end.
PeekAt(src, pos) == IF pos < Len(src) THEN src[pos + 1] ELSE ""
\* source[pos..].starts_with(s)
StartsWith(src, pos, s) ==
    pos + Len(s) <= Len(src) /\ SubSeq(src, pos + 1, pos + Len(s)) = s
\* The first offset from pos on whose character is outside S, or the end.
SkipWhile(src, pos, S) ==
    IF pos >= Len(src) THEN pos
    ELSE CHOOSE end \in pos .. Len(src) :
             /\ end = Len(src) \/ src[end + 1] \notin S
             /\ \A k \in pos .. end - 1 : src[k + 1] \in S
\* The first offset from pos on whose character is c, or the end.
SkipUntil(src, pos, c) ==
    IF pos >= Len(src) THEN pos
    ELSE CHOOSE end \in pos .. Len(src) :
             /\ end = Len(src) \/ src[end + 1] = c
             /\ \A k \in pos .. end - 1 : src[k + 1] # c
\* str::trim
Trim(s) ==
    LET keep == {i \in 1 .. Len(s) : s[i] \notin Whitespace}
    IN IF keep = {} THEN <<>>
       ELSE SubSeq(s, CHOOSE i \in keep : \A j \in keep : i <= j,
                   CHOOSE i \in keep : \A j \in keep : j <= i)

\* A parsing step's result: Some(v) or None, and where the parser stands.
Some(v, pos) == [ok |-> TRUE, v |-> v, pos |-> pos]
None(pos) == [ok |-> FALSE, v |-> <<>>, pos |-> pos]

\* ----------------------------------------------------------- script parser

\* Value: Null, Int, Bool and String (the model's scripts hold no floats and
\* no arrays).
VNull == [t |-> "Null", v |-> 0]
VInt(i) == [t |-> "Int", v |-> i]
VBool(b) == [t |-> "Bool", v |-> b]
VString(s) == [t |-> "String", v |-> s]

\* ScriptParser::skip_whitespace: whitespace and `//` comments up to the
\* end of the line.
RECURSIVE ScriptSkipWhitespace(_, _)
ScriptSkipWhitespace(src, pos) ==
    Only({IF StartsWith(src, p, <<"/", "/">>)
          THEN ScriptSkipWhitespace(src, SkipUntil(src, p, "\n"))
          ELSE p : p \in {SkipWhile(src, pos, Whitespace)}})

\* ScriptParser::consume: the whitespace is skipped whether or not
\* `expected` follows.
ScriptConsume(src, pos, expected) ==
    Only({IF StartsWith(src, p, expected)
          THEN [ok |-> TRUE, pos |-> p + Len(expected)]
          ELSE [ok |-> FALSE, pos |-> p] : p \in {ScriptSkipWhitespace(src, pos)}})

\* ScriptParser::parse_identifier
ScriptParseIdentifier(src, pos) ==
    Only({IF PeekAt(src, start) \notin Alphabetic \cup {"_"} THEN None(start)
          ELSE Only({Some(SubSeq(src, start + 1, end), end) :
                     end \in {SkipWhile(src, start, Alphabetic \cup Numeric \cup {"_"})}})
          : start \in {ScriptSkipWhitespace(src, pos)}})

\* str::parse::<i64> on a text of digits.
RECURSIVE DigitsToInt(_)
DigitsToInt(s) ==
    IF s = <<>> THEN 0
    ELSE 10 * DigitsToInt(SubSeq(s, 1, Len(s) - 1))
         + (CHOOSE d \in 0 .. 9 : ToString(d) = s[Len(s)])

\* The offset after the minus that a number may start with.
AfterMinus(src, start) == IF PeekAt(src, start) = "-" THEN start + 1 ELSE start

\* ScriptParser::parse_number, for texts without a dot: an optional minus
\* and digits; a lone minus is consumed and yields None.
ParseNumber(src, pos) ==
    Only({Only({IF end = AfterMinus(src, start) THEN None(end)
                ELSE Some(VInt(IF PeekAt(src, start) = "-"
                               THEN 0 - DigitsToInt(SubSeq(src, start + 2, end))
                               ELSE DigitsToInt(SubSeq(src, start + 1, end))), end)
                : end \in {SkipWhile(src, AfterMinus(src, start), Numeric)}})
          : start \in {ScriptSkipWhitespace(src, pos)}})

\* ScriptParser::parse_string after the opening quote: the text up to the
\* closing quote or the end of the source, with backslash escapes.
RECURSIVE ParseStringBody(_, _, _, _)
ParseStringBody(src, pos, quote, result) ==
    CASE pos >= Len(src) -> Some(result, pos)
      [] src[pos + 1] = quote -> Some(result, pos + 1)
      [] src[pos + 1] = "\\" /\ pos + 1 >= Len(src) -> Some(result, pos + 1)
      [] src[pos + 1] = "\\" ->
             ParseStringBody(src, pos + 2, quote,
                 Append(result, CASE src[pos + 2] = "n" -> "\n"
                                  [] src[pos + 2] = "t" -> "\t"
                                  [] OTHER -> src[pos + 2]))
      [] OTHER -> ParseStringBody(src, pos + 1, quote, Append(result, src[pos + 1]))

\* Expr
Literal(v) == [e |-> "Literal", val |-> v]
BinOp(left, op, right) == [e |-> "BinOp", left |-> left, op |-> op, right |-> right]
UnaryOp(op, expr) == [e |-> "UnaryOp", op |-> op, expr |-> expr]

\* The binary operators by level, loosest first, each level in the order in
\* which its parse function tries them: parse_or, parse_and, parse_equality,
\* parse_comparison, parse_additive, parse_multiplicative.
BinLevels ==
    << << [text |-> <<"|", "|">>, op |-> "Or"] >>,
       << [text |-> <<"&", "&">>, op |-> "And"] >>,
       << [text |-> <<"=", "=">>, op |-> "Eq"], [text |-> <<"!", "=">>, op |-> "Ne"] >>,
       << [text |-> <<"<", "=">>, op |-> "Le"], [text |-> <<">", "=">>, op |-> "Ge"],
          [text |-> <<"<">>, op |-> "Lt"], [text |-> <<">">>, op |-> "Gt"] >>,
       << [text |-> <<"+">>, op |-> "Add"], [text |-> <<"-">>, op |-> "Sub"] >>,
       << [text |-> <<"*">>, op |-> "Mul"], [text |-> <<"/">>, op |-> "Div"],
          [text |-> <<"%">>, op |-> "Mod"] >> >>

\* The operator of a level that the parser consumes at pos, after the
\* whitespace: the first of the level that the source continues with, and
\* the offset after it; "" and the offset after the whitespace when there is
\* none.
NextOp(level, src, pos) ==
    Only({Only({IF M = {} THEN [op |-> "", pos |-> p]
                ELSE Only({[op |-> o.op, pos |-> p + Len(o.text)] :
                           o \in {BinLevels[level][CHOOSE k \in M : \A j \in M : k <= j]}})
                : M \in {{k \in 1 .. Len(BinLevels[level]) :
                             StartsWith(src, p, BinLevels[level][k].text)}}})
          : p \in {ScriptSkipWhitespace(src, pos)}})

RECURSIVE ParseBinary(_, _, _)
RECURSIVE ParseClimb(_, _, _, _)
RECURSIVE ParseBinaryLoop(_, _, _, _)
RECURSIVE ParseUnary(_, _)
RECURSIVE ParsePrimary(_, _)
RECURSIVE ParseArgs(_, _, _)

\* parse_expr
ParseExpr(src, pos) == ParseBinary(1, src, pos)

\* parse_or ... parse_multiplicative, the parse function of a level: a first
\* operand, read by the function of the next tighter level, then operators
\* of the level with their right operands for as long as one follows.  The
\* first operand of every level starts with the same unary expression, so
\* that expression is read once and the loops of the levels are run on it
\* from the tightest level up to this one.
ParseBinary(level, src, pos) ==
    Only({ParseClimb(Len(BinLevels), level, u, src) : u \in {ParseUnary(src, pos)}})

\* The loops of the levels from `from` up to `level` on a first operand: a
\* failed operand is what every level returns.
ParseClimb(from, level, l, src) ==
    CASE ~l.ok -> l
      [] from = level -> ParseBinaryLoop(level, l.v, src, l.pos)
      [] OTHER -> Only({ParseClimb(from - 1, level, x, src) :
                        x \in {ParseBinaryLoop(from, l.v, src, l.pos)}})

\* The loop of a level after the operand `left`.
ParseBinaryLoop(level, left, src, pos) ==
    Only({IF o.op = "" THEN Some(left, o.pos)
          ELSE Only({IF r.ok
                     THEN ParseBinaryLoop(level, BinOp(left, o.op, r.v), src, r.pos)
                     ELSE r
                     : r \in {IF level = Len(BinLevels) THEN ParseUnary(src, o.pos)
                              ELSE ParseBinary(level + 1, src, o.pos)}})
          : o \in {NextOp(level, src, pos)}})

\* parse_unary: `!`, `-` (a minus before a digit starts a number), or a
\* primary expression.
ParseUnary(src, pos) ==
    Only({CASE PeekAt(src, p) = "!" ->
                   Only({IF r.ok THEN Some(UnaryOp("Not", r.v), r.pos) ELSE r
                         : r \in {ParseUnary(src, p + 1)}})
            [] PeekAt(src, p) = "-" /\ PeekAt(src, p + 1) \in Numeric ->
                   Only({Some(Literal(n.v), n.pos) : n \in {ParseNumber(src, p)}})
            [] PeekAt(src, p) = "-" ->
                   Only({IF r.ok THEN Some(UnaryOp("Neg", r.v), r.pos) ELSE r
                         : r \in {ParseUnary(src, p + 1)}})
            [] OTHER -> ParsePrimary(src, p)
          : p \in {ScriptSkipWhitespace(src, pos)}})

\* The end of parse_primary: a name, which is a call when `(` follows, else
\* a variable.
ParseCallOrVar(src, pos) ==
    Only({CASE ~id.ok -> id
            [] ScriptConsume(src, id.pos, <<"(">>).ok ->
                   Only({Some([e |-> "Call", name |-> id.v, args |-> a.v], a.pos) :
                         a \in {ParseArgs(src, ScriptConsume(src, id.pos, <<"(">>).pos,
                                          <<>>)}})
            [] OTHER -> Some([e |-> "Var", name |-> id.v],
                             ScriptConsume(src, id.pos, <<"(">>).pos)
          : id \in {ScriptParseIdentifier(src, pos)}})

\* parse_primary: a parenthesized expression, true, false, null, a string,
\* a number, a call or a variable.
ParsePrimary(src, pos) ==
    Only({CASE PeekAt(src, p) = "(" ->
                   Only({IF x.ok THEN Some(x.v, ScriptConsume(src, x.pos, <<")">>).pos)
                         ELSE x : x \in {ParseExpr(src, p + 1)}})
            [] StartsWith(src, p, <<"t", "r", "u", "e">>) ->
                   Some(Literal(VBool(TRUE)), p + 4)
            [] StartsWith(src, p, <<"f", "a", "l", "s", "e">>) ->
                   Some(Literal(VBool(FALSE)), p + 5)
            [] StartsWith(src, p, <<"n", "u", "l", "l">>) -> Some(Literal(VNull), p + 4)
            [] PeekAt(src, p) \in {"\"", "'"} ->
                   Only({Some(Literal(VString(s.v)), s.pos) :
                         s \in {ParseStringBody(src, p + 1, src[p + 1], <<>>)}})
            [] PeekAt(src, p) \in Numeric \cup {"-"} /\ ParseNumber(src, p).ok ->
                   Only({Some(Literal(n.v), n.pos) : n \in {ParseNumber(src, p)}})
            [] PeekAt(src, p) = "-" -> ParseCallOrVar(src, ParseNumber(src, p).pos)
            [] OTHER -> ParseCallOrVar(src, p)
          : p \in {ScriptSkipWhitespace(src, pos)}})

\* The arguments of a call up to `)`, each followed by an optional comma
\* (the loop does not end on a source that ends inside the parentheses; the
\* model's sources close them).
ParseArgs(src, pos, args) ==
    IF ScriptConsume(src, pos, <<")">>).ok
    THEN Some(args, ScriptConsume(src, pos, <<")">>).pos)
    ELSE Only({ParseArgs(src, ScriptConsume(src, x.pos, <<",">>).pos,
                         IF x.ok THEN Append(args, x.v) ELSE args)
               : x \in {ParseExpr(src, pos)}})

RECURSIVE ParseStatement(_, _)
RECURSIVE ParseBlock(_, _, _)

\* parse_var_decl: a name, an optional `=`, an expression.
ParseVarDecl(src, pos) ==
    Only({IF ~id.ok THEN id
          ELSE Only({IF x.ok
                     THEN Some([s |-> "VarDecl", name |-> id.v, value |-> x.v], x.pos)
                     ELSE x
                     : x \in {ParseExpr(src, ScriptConsume(src, id.pos, <<"=">>).pos)}})
          : id \in {ScriptParseIdentifier(src, pos)}})

\* `{`, a block, `}`, each brace optional.
ParseBraced(src, pos) ==
    Only({Some(b.v, ScriptConsume(src, b.pos, <<"}">>).pos) :
          b \in {ParseBlock(src, ScriptConsume(src, pos, <<"{">>).pos, <<>>)}})

\* The end of parse_if: the then block and the optional else block.
ParseIfBlocks(src, cond) ==
    Only({IF ScriptConsume(src, th.pos, <<"e", "l", "s", "e">>).ok
          THEN Only({Some([s |-> "If", condition |-> cond.v, then_block |-> th.v,
                           else_block |-> <<el.v>>], el.pos) :
                     el \in {ParseBraced(src, ScriptConsume(src, th.pos,
                                                  <<"e", "l", "s", "e">>).pos)}})
          ELSE Some([s |-> "If", condition |-> cond.v, then_block |-> th.v,
                     else_block |-> <<>>],
                    ScriptConsume(src, th.pos, <<"e", "l", "s", "e">>).pos)
          : th \in {ParseBraced(src, cond.pos)}})

\* parse_if, after the keyword.
ParseIf(src, pos) ==
    Only({IF cond.ok THEN ParseIfBlocks(src, cond) ELSE cond
          : cond \in {ParseExpr(src, pos)}})

\* parse_while, after the keyword.
ParseWhile(src, pos) ==
    Only({IF ~cond.ok THEN cond
          ELSE Only({Some([s |-> "While", condition |-> cond.v, body |-> b.v], b.pos) :
                     b \in {ParseBraced(src, cond.pos)}})
          : cond \in {ParseExpr(src, pos)}})

\* The assignment branch of parse_statement at a name: after the name and
\* `=`, a second `=` is looked for, which skips the whitespace that follows
\* the first one; the parser then steps back by one byte and reads the
\* assigned expression from there.  None when this is no assignment.
ParseAssigned(src, id) ==
    IF id.ok /\ ScriptConsume(src, id.pos, <<"=">>).ok
    THEN Only({IF c2.ok THEN None(c2.pos) ELSE ParseExpr(src, c2.pos - 1) :
               c2 \in {ScriptConsume(src, ScriptConsume(src, id.pos, <<"=">>).pos,
                                     <<"=">>)}})
    ELSE None(id.pos)

\* The end of parse_statement: an assignment; when that fails, the
\* statement is read again from its start as an expression.
ParseAssignOrExpr(src, pos) ==
    Only({Only({IF value.ok
                THEN Some([s |-> "Assign", name |-> id.v, value |-> value.v], value.pos)
                ELSE Only({IF x.ok THEN Some([s |-> "ExprStmt", expr |-> x.v], x.pos)
                           ELSE x : x \in {ParseExpr(src, pos)}})
                : value \in {ParseAssigned(src, id)}})
          : id \in {ScriptParseIdentifier(src, pos)}})

\* parse_statement
ParseStatement(src, pos) ==
    Only({CASE StartsWith(src, p, <<"i", "f">>) -> ParseIf(src, p + 2)
            [] StartsWith(src, p, <<"w", "h", "i", "l", "e">>) -> ParseWhile(src, p + 5)
            [] StartsWith(src, p, <<"r", "e", "t", "u", "r", "n">>) ->
                   Only({Some([s |-> "Return",
                               value |-> IF x.ok THEN <<x.v>> ELSE <<>>], x.pos) :
                         x \in {ParseExpr(src, p + 6)}})
            [] StartsWith(src, p, <<"v", "a", "r">>) -> ParseVarDecl(src, p + 3)
            [] OTHER -> ParseAssignOrExpr(src, p)
          : p \in {ScriptSkipWhitespace(src, pos)}})

\* parse_block: statements up to `}`, the end of the source, or a statement
\* that does not parse.
ParseBlock(src, pos, stmts) ==
    IF \/ PeekAt(src, ScriptSkipWhitespace(src, pos)) = "}"
       \/ ScriptSkipWhitespace(src, pos) >= Len(src)
    THEN Some(stmts, ScriptSkipWhitespace(src, pos))
    ELSE Only({IF st.ok THEN ParseBlock(src, st.pos, Append(stmts, st.v))
               ELSE Some(stmts, st.pos) : st \in {ParseStatement(src, pos)}})

\* The parameter names of a function up to `)`, each followed by an
\* optional comma.
RECURSIVE ParseParams(_, _, _)
ParseParams(src, pos, params) ==
    IF ScriptConsume(src, pos, <<")">>).ok
    THEN Some(params, ScriptConsume(src, pos, <<")">>).pos)
    ELSE Only({ParseParams(src, ScriptConsume(src, id.pos, <<",">>).pos,
                           IF id.ok THEN Append(params, id.v) ELSE params)
               : id \in {ScriptParseIdentifier(src, pos)}})

\* parse_function, after the keyword: name, parameters, body.
ParseFunction(src, pos) ==
    Only({IF ~id.ok THEN id
          ELSE Only({Only({Some([name |-> id.v, params |-> ps.v, body |-> b.v], b.pos)
                           : b \in {ParseBraced(src, ps.pos)}})
                     : ps \in {ParseParams(src, ScriptConsume(src, id.pos, <<"(">>).pos,
                                           <<>>)}})
          : id \in {ScriptParseIdentifier(src, pos)}})

\* parse_script: the `var` declarations and the functions of a script
\* block; anything else is skipped a character at a time.
RECURSIVE ParseScript(_, _, _)
ParseScript(src, pos, acc) ==
    Only({CASE p >= Len(src) -> acc
            [] StartsWith(src, p, <<"f", "u", "n", "c">>) ->
                   Only({ParseScript(src, f.pos,
                                     IF f.ok THEN [acc EXCEPT !.funcs = Append(@, f.v)]
                                     ELSE acc) : f \in {ParseFunction(src, p + 4)}})
            [] StartsWith(src, p, <<"v", "a", "r">>) ->
                   Only({ParseScript(src, d.pos,
                                     IF d.ok THEN [acc EXCEPT !.vars = Append(@, d.v)]
                                     ELSE acc) : d \in {ParseVarDecl(src, p + 3)}})
            [] OTHER -> ParseScript(src, p + 1, acc)
          : p \in {ScriptSkipWhitespace(src, pos)}})

\* parse_inline: statements, each followed by an optional semicolon, up to
\* the end of the source or a statement that does not parse.
RECURSIVE ParseInline(_, _, _)
ParseInline(src, pos, stmts) ==
    IF ScriptSkipWhitespace(src, pos) >= Len(src) THEN stmts
    ELSE Only({IF st.ok
               THEN ParseInline(src, ScriptConsume(src, st.pos, <<";">>).pos,
                                Append(stmts, st.v))
               ELSE stmts : st \in {ParseStatement(src, pos)}})

\* ----------------------------------------------------------- script engine

\* format!("{}", i) for an i64.
RECURSIVE NatToChars(_)
NatToChars(n) ==
    IF n < 10 THEN <<ToString(n)>> ELSE NatToChars(n \div 10) \o <<ToString(n % 10)>>

\* Value::to_display
ToDisplay(val) ==
    CASE val.t = "Null" -> <<"n", "u", "l", "l">>
      [] val.t = "Int" /\ val.v < 0 -> <<"-">> \o NatToChars(0 - val.v)
      [] val.t = "Int" -> NatToChars(val.v)
      [] val.t = "Bool" /\ val.v -> <<"t", "r", "u", "e">>
      [] val.t = "Bool" -> <<"f", "a", "l", "s", "e">>
      [] OTHER -> val.v

\* Value::is_truthy
IsTruthy(val) ==
    CASE val.t = "Null" -> FALSE
      [] val.t = "Int" -> val.v # 0
      [] val.t = "Bool" -> val.v
      [] OTHER -> val.v # <<>>

\* Value::to_int
ToInt(val) ==
    CASE val.t = "Int" -> val.v
      [] val.t = "Bool" /\ val.v -> 1
      [] OTHER -> 0

\* The derived PartialEq of Value.
ValueEq(a, b) == a.t = b.t /\ a.v = b.v

\* i64 division and remainder, which truncate towards zero.
Abs(i) == IF i < 0 THEN 0 - i ELSE i
TruncDiv(a, b) ==
    IF (a < 0) = (b < 0) THEN Abs(a) \div Abs(b) ELSE 0 - (Abs(a) \div Abs(b))
TruncRem(a, b) == a - b * TruncDiv(a, b)

\* ScriptEngine::apply_binop: And and Or get both operands as values.
ApplyBinop(left, op, right) ==
    CASE op = "Add" /\ left.t = "String" /\ right.t = "String" ->
             VString(left.v \o right.v)
      [] op = "Add" -> VInt(ToInt(left) + ToInt(right))
      [] op = "Sub" -> VInt(ToInt(left) - ToInt(right))
      [] op = "Mul" -> VInt(ToInt(left) * ToInt(right))
      [] op \in {"Div", "Mod"} /\ ToInt(right) = 0 -> VInt(0)
      [] op = "Div" -> VInt(TruncDiv(ToInt(left), ToInt(right)))
      [] op = "Mod" -> VInt(TruncRem(ToInt(left), ToInt(right)))
      [] op = "Eq" -> VBool(ValueEq(left, right))
      [] op = "Ne" -> VBool(~ValueEq(left, right))
      [] op = "Lt" -> VBool(ToInt(left) < ToInt(right))
      [] op = "Gt" -> VBool(ToInt(left) > ToInt(right))
      [] op = "Le" -> VBool(ToInt(left) <= ToInt(right))
      [] op = "Ge" -> VBool(ToInt(left) >= ToInt(right))
      [] op = "And" -> VBool(IsTruthy(left) /\ IsTruthy(right))
      [] op = "Or" -> VBool(IsTruthy(left) \/ IsTruthy(right))

\* BTreeMap: insert, remove, get (an Option: <<>> or <<v>>).
NoBindings == [n \in {} |-> VNull]
Insert(map, key, val) == (key :> val) @@ map
Remove(map, key) == [n \in DOMAIN map \ {key} |-> map[n]]
Get(map, key) == IF key \in DOMAIN map THEN <<map[key]>> ELSE <<>>

\* ScriptAction
ActionNone == [kind |-> "None", app_id |-> <<>>]
ActionClose == [kind |-> "Close", app_id |-> <<>>]
ActionMinimize == [kind |-> "Minimize", app_id |-> <<>>]

\* ScriptEngine::new
NewScriptEngine ==
    [variables |-> NoBindings, functions |-> NoBindings, pending_action |-> ActionNone]

\* The wait of while loops for their condition (`iterations < 10000`).
WHILE_LIMIT == 10000

RECURSIVE Evaluate(_, _)
RECURSIVE EvaluateArgs(_, _, _, _)
RECURSIVE CallFunction(_, _, _)
RECURSIVE ExecuteStmt(_, _)
RECURSIVE ExecuteStmts(_, _, _)
RECURSIVE WhileLoop(_, _, _)
RECURSIVE RunBody(_, _, _)

\* An evaluation's result: the engine after it, and the value.
Result(st, val) == [st |-> st, val |-> val]

\* ScriptEngine::evaluate.  A binary operation evaluates its left operand,
\* then its right operand, then applies the operator.
Evaluate(st, expr) ==
    CASE expr.e = "Literal" -> Result(st, expr.val)
      [] expr.e = "Var" ->
             Result(st, IF expr.name \in DOMAIN st.variables
                        THEN st.variables[expr.name] ELSE VNull)
      [] expr.e = "BinOp" ->
             Only({Only({Result(r.st, ApplyBinop(l.val, expr.op, r.val)) :
                         r \in {Evaluate(l.st, expr.right)}})
                   : l \in {Evaluate(st, expr.left)}})
      [] expr.e = "UnaryOp" ->
             Only({Result(x.st, IF expr.op = "Not" THEN VBool(~IsTruthy(x.val))
                                ELSE VInt(0 - ToInt(x.val)))
                   : x \in {Evaluate(st, expr.expr)}})
      [] expr.e = "Call" -> CallFunction(st, expr.name, expr.args)

\* The values of a list of arguments from the i-th on, evaluated in order,
\* after those in vals.
EvaluateArgs(st, args, i, vals) ==
    IF i > Len(args) THEN [st |-> st, vals |-> vals]
    ELSE Only({EvaluateArgs(x.st, args, i + 1, Append(vals, x.val)) :
               x \in {Evaluate(st, args[i])}})

\* The binding of the parameters from the i-th on to their arguments, each
\* with the binding that its name had when its turn came.
RECURSIVE BindParams(_, _, _, _, _)
BindParams(variables, params, vals, i, saved_params) ==
    IF i > Len(params) \/ i > Len(vals)
    THEN [variables |-> variables, saved_params |-> saved_params]
    ELSE BindParams(Insert(variables, params[i], vals[i]), params, vals, i + 1,
                    Append(saved_params, [param |-> params[i],
                                          old_value |-> Get(variables, params[i])]))

\* The saved bindings put back, from the i-th on, first saved first.
RECURSIVE RestoreParams(_, _, _)
RestoreParams(variables, saved_params, i) ==
    CASE i > Len(saved_params) -> variables
      [] saved_params[i].old_value # <<>> ->
             RestoreParams(Insert(variables, saved_params[i].param,
                                  saved_params[i].old_value[1]), saved_params, i + 1)
      [] OTHER -> RestoreParams(Remove(variables, saved_params[i].param),
                                saved_params, i + 1)

\* The body of a user function from its i-th statement on: a `return` with
\* a value at the top of the body ends it, every other statement is
\* executed.
RunBody(st, body, i) ==
    CASE i > Len(body) -> Result(st, VNull)
      [] body[i].s = "Return" /\ body[i].value # <<>> -> Evaluate(st, body[i].value[1])
      [] OTHER -> Only({RunBody(next, body, i + 1) : next \in {ExecuteStmt(st, body[i])}})

\* The call of a user function: the arguments are evaluated, the parameters
\* bound, the body run, the parameters' old bindings put back.
CallUser(st, func, args) ==
    Only({Only({Only({Result([r.st EXCEPT !.variables =
                                              RestoreParams(@, b.saved_params, 1)],
                             r.val)
                      : r \in {RunBody([a.st EXCEPT !.variables = b.variables],
                                       func.body, 1)}})
                : b \in {BindParams(a.st.variables, func.params, a.vals, 1, <<>>)}})
          : a \in {EvaluateArgs(st, args, 1, <<>>)}})

\* ScriptEngine::call_function: close, open, minimize, print, abs, min and
\* max, then the user's functions (the builtins on drives, files and arrays
\* and concat are not in the model's scripts); Null for an unknown name.
CallFunction(st, name, args) ==
    CASE name = <<"c", "l", "o", "s", "e">> ->
             Result([st EXCEPT !.pending_action = ActionClose], VNull)
      [] name = <<"o", "p", "e", "n">> /\ args # <<>> ->
             Only({Result(IF x.val.t = "String"
                          THEN [x.st EXCEPT !.pending_action =
                                                [kind |-> "Open", app_id |-> x.val.v]]
                          ELSE x.st, VNull) : x \in {Evaluate(st, args[1])}})
      [] name = <<"m", "i", "n", "i", "m", "i", "z", "e">> ->
             Result([st EXCEPT !.pending_action = ActionMinimize], VNull)
      [] name \in {<<"o", "p", "e", "n">>, <<"p", "r", "i", "n", "t">>} ->
             Result(st, VNull)
      [] name = <<"a", "b", "s">> /\ args # <<>> ->
             Only({Result(x.st, VInt(Abs(ToInt(x.val)))) : x \in {Evaluate(st, args[1])}})
      [] name \in {<<"m", "i", "n">>, <<"m", "a", "x">>} /\ Len(args) >= 2 ->
             Only({Result(x.st, VInt(IF name = <<"m", "i", "n">>
                                     THEN Min(ToInt(x.vals[1]), ToInt(x.vals[2]))
                                     ELSE Max(ToInt(x.vals[1]), ToInt(x.vals[2]))))
                   : x \in {EvaluateArgs(st, SubSeq(args, 1, 2), 1, <<>>)}})
      [] name \in {<<"a", "b", "s">>, <<"m", "i", "n">>, <<"m", "a", "x">>} ->
             Result(st, VInt(0))
      [] name \in DOMAIN st.functions -> CallUser(st, st.functions[name], args)
      [] OTHER -> Result(st, VNull)

\* ScriptEngine::execute_stmt
ExecuteStmt(st, stmt) ==
    CASE stmt.s \in {"VarDecl", "Assign"} ->
             Only({[x.st EXCEPT !.variables = Insert(@, stmt.name, x.val)] :
                   x \in {Evaluate(st, stmt.value)}})
      [] stmt.s = "If" ->
             Only({CASE IsTruthy(c.val) -> ExecuteStmts(c.st, stmt.then_block, 1)
                     [] stmt.else_block # <<>> -> ExecuteStmts(c.st, stmt.else_block[1], 1)
                     [] OTHER -> c.st
                   : c \in {Evaluate(st, stmt.condition)}})
      [] stmt.s = "While" -> WhileLoop(st, stmt, 0)
      [] stmt.s = "ExprStmt" -> Evaluate(st, stmt.expr).st
      [] OTHER -> st

\* A list of statements from the i-th on.
ExecuteStmts(st, stmts, i) ==
    IF i > Len(stmts) THEN st
    ELSE Only({ExecuteStmts(next, stmts, i + 1) : next \in {ExecuteStmt(st, stmts[i])}})

\* The loop test of execute_stmt without its cap on the rounds.
WhileContinuesUncapped(val, iterations) == IsTruthy(val)

\* The loop test of execute_stmt, `condition.is_truthy() && iterations < 10000`,
\* on the value of the condition.
WhileContinues(val, iterations) == IsTruthy(val) /\ iterations < WHILE_LIMIT

\* The while loop of execute_stmt after `iterations` rounds.
WhileLoop(st, stmt, iterations) ==
    Only({IF WhileContinues(c.val, iterations)
          THEN Only({WhileLoop(next, stmt, iterations + 1) :
                     next \in {ExecuteStmts(c.st, stmt.body, 1)}})
          ELSE c.st : c \in {Evaluate(st, stmt.condition)}})

\* The functions of a script put into the map, first parsed first.
RECURSIVE StoreFunctions(_, _, _)
StoreFunctions(functions, funcs, i) ==
    IF i > Len(funcs) THEN functions
    ELSE StoreFunctions(Insert(functions, funcs[i].name, funcs[i]), funcs, i + 1)

\* ScriptEngine::execute_script: the declarations are executed, the
\* functions stored.
ExecuteScript(st, source) ==
    Only({[ExecuteStmts(st, parsed.vars, 1) EXCEPT
               !.functions = StoreFunctions(@, parsed.funcs, 1)]
          : parsed \in {ParseScript(source, 0, [vars |-> <<>>, funcs |-> <<>>])}})

\* ScriptEngine::execute_inline
ExecuteInline(st, source) ==
    Only({ExecuteStmts(st, stmts, 1) : stmts \in {ParseInline(source, 0, <<>>)}})

\* ScriptEngine::interpolate from offset pos on: after `{` the name runs up
\* to the next `}` or to the end of the text; a bound name gives the value's
\* display form, any other name gives `{`, the name and `}`.
RECURSIVE InterpolateFrom(_, _, _)
InterpolateFrom(variables, text, pos) ==
    CASE pos >= Len(text) -> <<>>
      [] text[pos + 1] = "{" ->
             Only({(IF SubSeq(text, pos + 2, end) \in DOMAIN variables
                    THEN ToDisplay(variables[SubSeq(text, pos + 2, end)])
                    ELSE <<"{">> \o SubSeq(text, pos + 2, end) \o <<"}">>)
                   \o InterpolateFrom(variables, text, end + 1)
                   : end \in {SkipUntil(text, pos + 1, "}")}})
      [] OTHER -> <<text[pos + 1]>> \o InterpolateFrom(variables, text, pos + 1)
Interpolate(variables, text) == InterpolateFrom(variables, text, 0)

\* ---------------------------------------------------------------- .pa files

\* A failed parse: the ParseError.
Failed(err) == [ok |-> FALSE, v |-> err, pos |-> 0]

\* The first offset from pos on at which `stop` starts, or the end.
SkipUntilStr(src, pos, stop) ==
    IF pos >= Len(src) THEN pos
    ELSE CHOOSE end \in pos .. Len(src) :
             /\ end = Len(src) \/ StartsWith(src, end, stop)
             /\ \A k \in pos .. end - 1 : ~StartsWith(src, k, stop)
\* The offset after `stop` where it starts at pos, else pos (consume).
After(src, pos, stop) == IF StartsWith(src, pos, stop) THEN pos + Len(stop) ELSE pos

\* PaParser::skip_whitespace: whitespace and `<!-- ... -->` comments.
RECURSIVE PaSkipWhitespace(_, _)
PaSkipWhitespace(src, pos) ==
    Only({IF StartsWith(src, p, <<"<", "!", "-", "-">>)
          THEN PaSkipWhitespace(src, After(src, SkipUntilStr(src, p + 4, <<"-", "-",
              ">">>), <<"-", "-", ">">>))
          ELSE p : p \in {SkipWhile(src, pos, Whitespace)}})

\* PaParser::parse_quoted_string
PaParseQuotedString(src, pos) ==
    CASE pos >= Len(src) -> Failed("UnexpectedEnd")
      [] src[pos + 1] \notin {"\"", "'"} -> Failed("ExpectedAttribute")
      [] SkipUntil(src, pos + 1, src[pos + 1]) >= Len(src) -> Failed("UnexpectedEnd")
      [] OTHER -> Some(SubSeq(src, pos + 2, SkipUntil(src, pos + 1, src[pos + 1])),
                       SkipUntil(src, pos + 1, src[pos + 1]) + 1)

\* str::parse for usize (an optional plus and digits) and for i32 (an
\* optional sign and digits) succeeds.
IsNumber(s, signed) ==
    LET digits == IF s # <<>> /\ (Head(s) = "+" \/ (signed /\ Head(s) = "-"))
                  THEN Tail(s) ELSE s
    IN digits # <<>> /\ \A i \in 1 .. Len(digits) : digits[i] \in Numeric

\* PaParser::parse_identifier at pos: the offset after the letters, digits,
\* `_` and `-` of a name.
PaNameEnd(src, pos) == SkipWhile(src, pos, Alphabetic \cup Numeric \cup {"_", "-"})

\* The app's width and height are usize, its x and y are i32.
BadNumber(attr_name, value) ==
    \/ attr_name \in {<<"w", "i", "d", "t", "h">>, <<"h", "e", "i", "g", "h",
        "t">>} /\ ~IsNumber(value, FALSE)
    \/ attr_name \in {<<"x">>, <<"y">>} /\ ~IsNumber(value, TRUE)

\* One attribute of a tag after its name, from the offset eq after the name
\* and the whitespace: `=` and a quoted value.  The result has the
\* attributes with this one added.
PaParseAttr(src, attr_name, eq, attrs, strict) ==
    Only({CASE ~val.ok -> val
            [] strict /\ BadNumber(attr_name, val.v) -> Failed("InvalidNumber")
            [] OTHER -> Some(Insert(attrs, IF attr_name = <<"o", "n", "c", "l", "i", "c",
                "k">> THEN <<"o", "n", "_", "c", "l", "i", "c", "k">>
                                           ELSE attr_name, val.v), val.pos)
          : val \in {PaParseQuotedString(src, PaSkipWhitespace(src, eq + 1))}})

\* The attribute loop of a tag, up to `>` or `/>`: names, `=`, quoted
\* values.  The <app> tag is strict: a name without `=` is an error and its
\* width, height, x and y have to be numbers; the element tags skip a name
\* without `=` and fall back to defaults.  `onclick` is another name of
\* `on_click`.
RECURSIVE PaParseAttrs(_, _, _, _)
PaParseAttrs(src, pos, attrs, strict) ==
    Only({CASE PeekAt(src, p) = ">" ->
                   Some([attrs |-> attrs, self_closing |-> FALSE], p + 1)
            [] PeekAt(src, p) = "/" /\ PeekAt(src, p + 1) = ">" ->
                   Some([attrs |-> attrs, self_closing |-> TRUE], p + 2)
            [] PaNameEnd(src, After(src, p, <<"/">>)) = After(src, p, <<"/">>) ->
                   Failed("ExpectedAttribute")
            [] OTHER ->
                   Only({CASE PeekAt(src,
                       eq) # "=" /\ strict -> Failed("ExpectedAttribute")
                           [] PeekAt(src, eq) # "=" -> PaParseAttrs(src, eq, attrs,
                               strict)
                           [] OTHER ->
                                  Only({IF a.ok THEN PaParseAttrs(src, a.pos, a.v,
                                      strict)
                                        ELSE a
                                        : a \in {PaParseAttr(src,
                                                     SubSeq(src, After(src, p,
                                                         <<"/">>) + 1,
                                                         PaNameEnd(src,
                                                             After(src, p, <<"/">>))),
                                                     eq, attrs, strict)}})
                         : eq \in {PaSkipWhitespace(src,
                                       PaNameEnd(src, After(src, p, <<"/">>)))}})
          : p \in {PaSkipWhitespace(src, pos)}})

\* The text of an element up to `<`, trimmed, and the offset after the `>`
\* of its closing tag.
ElementText(src, pos) ==
    Only({[text |-> Trim(SubSeq(src, pos + 1, lt)),
           pos |-> Min(SkipUntil(src, lt, ">") + 1, Len(src))]
          : lt \in {SkipUntil(src, pos, "<")}})

\* A label or a button after its attributes a.
PaLabelOrButton(src, tag_name, a) ==
    Only({IF tag_name \in {<<"l", "a", "b", "e", "l">>, <<"t", "e", "x", "t">>}
          THEN Some(<<[kind |-> "Label", text |-> body.text, on_click |-> <<>>]>>,
                    body.pos)
          ELSE Some(<<[kind |-> "Button",
                       text |-> IF body.text = <<>> THEN <<"B", "u", "t", "t", "o",
                           "n">> ELSE body.text,
                       on_click |-> Get(a.v.attrs, <<"o", "n", "_", "c", "l", "i", "c",
                           "k">>)]>>, body.pos)
          : body \in {IF a.v.self_closing THEN [text |-> <<>>, pos |-> a.pos]
                      ELSE ElementText(src, a.pos)}})

\* PaParser::parse_element at a `<`: an Option of an element (<<>> for
\* None).  Labels and buttons keep their text and on_click handler;
\* textbox, panel, input, vbox, hbox and spacer are outside the model.
PaParseElement(src, pos) ==
    Only({CASE end = pos + 1 -> Failed("ExpectedAttribute")
            [] SubSeq(src, pos + 2, end) \in {<<"l", "a", "b", "e", "l">>, <<"t", "e",
                "x", "t">>, <<"b", "u", "t", "t", "o", "n">>, <<"b", "t", "n">>} ->
                   Only({IF a.ok THEN PaLabelOrButton(src, SubSeq(src, pos + 2, end), a)
                         ELSE a : a \in {PaParseAttrs(src, end, NoBindings, FALSE)}})
            [] SubSeq(src, pos + 2, end) \in
                   {<<"t", "e", "x", "t", "b", "o", "x">>, <<"p", "a", "n", "e", "l">>,
                       <<"i", "n", "p", "u", "t">>, <<"v", "b", "o", "x">>, <<"h", "b",
                       "o", "x">>, <<"s", "p", "a", "c", "e", "r">>} ->
                   Failed("NotModelled")
            [] SubSeq(src, pos + 2, end) = <<"s", "c", "r", "i", "p", "t">> ->
                   Some(<<>>, After(src, SkipUntilStr(src, end, <<"<", "/", "s", "c",
                       "r", "i", "p", "t", ">">>), <<"<", "/", "s", "c", "r", "i", "p",
                       "t", ">">>))
            [] OTHER -> Some(<<>>, Min(SkipUntil(src, end, ">") + 1, Len(src)))
          : end \in {PaNameEnd(src, pos + 1)}})

\* The <script> block at pos: its text, trimmed, and the offset after
\* `</script>`.
PaScriptBlock(src, pos) ==
    Only({Only({[text |-> Trim(SubSeq(src, start + 1, q)),
                 pos |-> After(src, q, <<"<", "/", "s", "c", "r", "i", "p", "t", ">">>)]
                : q \in {SkipUntilStr(src, start, <<"<", "/", "s", "c", "r", "i", "p",
                    "t", ">">>)}})
          : start \in {Min(SkipUntil(src, pos + 7, ">") + 1, Len(src))}})

\* The second loop of PaParser::parse: children up to `</app>`.  Text
\* between the tags is skipped, a <script> block becomes the app's script,
\* and the end of the input before `</app>` is UnexpectedEnd.
RECURSIVE PaParseChildren(_, _, _)
PaParseChildren(src, pos, app) ==
    Only({CASE StartsWith(src, p, <<"<", "/", "a", "p", "p", ">">>) -> Some(app, p + 6)
            [] p >= Len(src) -> Failed("UnexpectedEnd")
            [] PeekAt(src, p) # "<" -> PaParseChildren(src, p + 1, app)
            [] StartsWith(src, p, <<"<", "s", "c", "r", "i", "p", "t">>) ->
                   Only({PaParseChildren(src, sc.pos,
                       [app EXCEPT !.script = <<sc.text>>])
                         : sc \in {PaScriptBlock(src, p)}})
            [] OTHER ->
                   Only({IF el.ok
                         THEN PaParseChildren(src, el.pos,
                                              [app EXCEPT !.elements = @ \o el.v])
                         ELSE el : el \in {PaParseElement(src, p)}})
          : p \in {PaSkipWhitespace(src, pos)}})

\* The app of an <app> tag with the attributes a, before its children.  The
\* model keeps the title, the script and the elements of an AppDef.
NewAppDef(a) ==
    [title |-> IF <<"t", "i", "t", "l", "e">> \in DOMAIN a.v.attrs THEN a.v.attrs[<<"t",
        "i", "t", "l", "e">>] ELSE <<"U", "n", "t", "i", "t", "l", "e", "d">>,
     script |-> <<>>, elements |-> <<>>]

\* parse_pa, PaParser::parse: `<app`, its attributes, its children.
PaParse(content) ==
    IF ~StartsWith(content, PaSkipWhitespace(content, 0), <<"<", "a", "p", "p">>)
    THEN Failed("ExpectedTag")
    ELSE Only({CASE ~a.ok -> a
                 [] a.v.self_closing -> Some(NewAppDef(a), a.pos)
                 [] OTHER -> PaParseChildren(content, a.pos, NewAppDef(a))
               : a \in {PaParseAttrs(content, PaSkipWhitespace(content, 0) + 4,
                                     NoBindings, TRUE)}})

\* ParseError::to_message
ToMessage(err) ==
    CASE err = "UnexpectedEnd" -> <<"U", "n", "e", "x", "p", "e", "c", "t", "e", "d",
        " ", "e", "n", "d", " ", "o", "f", " ", "f", "i", "l", "e">>
      [] err = "ExpectedTag" -> <<"E", "x", "p", "e", "c", "t", "e", "d", " ", "a", " ",
          "t", "a", "g", " ", "(", "e", ".", "g", ".", ",", " ", "<", "b", "u", "t", "t",
          "o", "n", ">", ")">>
      [] err = "ExpectedAttribute" -> <<"E", "x", "p", "e", "c", "t", "e", "d", " ", "a",
          "t", "t", "r", "i", "b", "u", "t", "e", " ", "(", "n", "a", "m", "e", "=",
          "\"", "v", "a", "l", "u", "e", "\"", ")">>
      [] err = "InvalidNumber" -> <<"I", "n", "v", "a", "l", "i", "d", " ", "n", "u",
          "m", "b", "e", "r", " ", "i", "n", " ", "a", "t", "t", "r", "i", "b", "u", "t",
          "e">>
      [] OTHER -> <<"A", "p", "p", " ", "n", "o", "t", " ", "f", "o", "u", "n", "d">>

\* create_error_app: two labels and an OK button that closes the window.
CreateErrorApp(app_id, err) ==
    [title |-> <<"P", "a", "r", "s", "e", " ", "E", "r", "r", "o", "r">>,
        script |-> <<>>,
     elements |-> <<[kind |-> "Label", text |-> <<"F", "a", "i", "l", "e", "d", " ", "t",
         "o", " ", "l", "o", "a", "d", ":", " ">> \o app_id,
                     on_click |-> <<>>],
                    [kind |-> "Label", text |-> ToMessage(err), on_click |-> <<>>],
                    [kind |-> "Button", text |-> <<"O", "K">>, on_click |-> <<<<"c", "l",
                        "o", "s", "e", "(", ")">>>>]>>]

\* Window::from_app: the script block is executed by a new engine.
FromApp(app) ==
    [open |-> TRUE, title |-> app.title, visible |-> TRUE, elements |-> app.elements,
     script |-> IF app.script # <<>> THEN ExecuteScript(NewScriptEngine, app.script[1])
                ELSE NewScriptEngine]

\* No .pa window has been opened.
NoPaWindow ==
    [open |-> FALSE, title |-> <<>>, visible |-> FALSE, elements |-> <<>>,
     script |-> NewScriptEngine]

\* Desktop::run_pa_file on a file with this content: the app's window, or
\* the error window.
RunPaFile(filepath, content) ==
    Only({FromApp(IF parsed.ok THEN parsed.v ELSE CreateErrorApp(filepath, parsed.v))
          : parsed \in {PaParse(content)}})

\* Window::check_element_click on a button with a handler, and what
\* handle_input does with the action: the handler is executed, the pending
\* action is taken, Close hides the window.
ClickButton(w, k) ==
    Only({[window |-> [w EXCEPT !.script = [done EXCEPT !.pending_action = ActionNone],
                                !.visible = done.pending_action.kind # "Close"],
           action |-> done.pending_action]
          : done \in {ExecuteInline(w.script, w.elements[k].on_click[1])}})

\* The text that render_element draws for the k-th element, a label.
LabelShown(w, k) == Interpolate(w.script.variables, w.elements[k].text)

\* The file of the run, and the .pa files on the drive: the counter app
\* without and with blanks around its operators, an <app> tag that is not
\* closed, an app without `</app>`, an app whose handlers use `&&` and `||`,
\* an app whose functions have parameters, and an app whose script block
\* calls close() in a declaration.
PaPath == <<"a", "p", "p", ".", "p", "a">>
CounterApp ==
    <<"<", "a", "p", "p", " ", "t", "i", "t", "l", "e", "=", "\"", "C", "o", "u", "n",
        "t", "e", "r", "\"", ">", "<", "s", "c", "r", "i", "p", "t", ">", "v", "a", "r",
        " ", "c", "=", "0", " ", "f", "u", "n", "c", " ", "i", "n", "c", "(", ")", "{",
        "c", "=", "c", "+", "1", "}", "<", "/", "s", "c", "r", "i", "p", "t", ">", "<",
        "b", "u", "t", "t", "o", "n", " ", "o", "n", "_", "c", "l", "i", "c", "k", "=",
        "\"", "i", "n", "c", "(", ")", "\"", ">", "+", "<", "/", "b", "u", "t", "t", "o",
        "n", ">", "<", "l", "a", "b", "e", "l", ">", "{", "c", "}", "<", "/", "l", "a",
        "b", "e", "l", ">", "<", "/", "a", "p", "p", ">">>
SpacedCounterApp ==
    <<"<", "a", "p", "p", " ", "t", "i", "t", "l", "e", "=", "\"", "C", "o", "u", "n",
        "t", "e", "r", "\"", ">", "<", "s", "c", "r", "i", "p", "t", ">", "v", "a", "r",
        " ", "c", " ", "=", " ", "0", " ", "f", "u", "n", "c", " ", "i", "n", "c", "(",
        ")", " ", "{", " ", "c", " ", "=", " ", "c", " ", "+", " ", "1", " ", "}", "<",
        "/", "s", "c", "r", "i", "p", "t", ">", "<", "b", "u", "t", "t", "o", "n", " ",
        "o", "n", "_", "c", "l", "i", "c", "k", "=", "\"", "i", "n", "c", "(", ")", "\"",
        ">", "+", "<", "/", "b", "u", "t", "t", "o", "n", ">", "<", "l", "a", "b", "e",
        "l", ">", "{", "c", "}", "<", "/", "l", "a", "b", "e", "l", ">", "<", "/", "a",
        "p", "p", ">">>
UnclosedApp == <<"<", "a", "p", "p", " ", "t", "i", "t", "l", "e", "=", "\"", "x",
    "\"">>
OpenEndedApp == <<"<", "a", "p", "p", " ", "t", "i", "t", "l", "e", "=", "\"", "x", "\"",
    ">">>
LogicApp ==
    <<"<", "a", "p", "p", ">", "<", "s", "c", "r", "i", "p", "t", ">", "v", "a", "r",
        " ", "c", " ", "=", " ", "0", " ", "f", "u", "n", "c", " ", "i", "n", "c", "(",
        ")", " ", "{", " ", "c", " ", "=", " ", "c", " ", "+", " ", "1", " ", "}", "<",
        "/", "s", "c", "r", "i", "p", "t", ">", "<", "b", "u", "t", "t", "o", "n", " ",
        "o", "n", "_", "c", "l", "i", "c", "k", "=", "\"", "0", " ", "&", "&", " ", "i",
        "n", "c", "(", ")", "\"", ">", "a", "<", "/", "b", "u", "t", "t", "o", "n", ">",
        "<", "b", "u", "t", "t", "o", "n", " ", "o", "n", "_", "c", "l", "i", "c", "k",
        "=", "\"", "1", " ", "|", "|", " ", "i", "n", "c", "(", ")", "\"", ">", "b", "<",
        "/", "b", "u", "t", "t", "o", "n", ">", "<", "b", "u", "t", "t", "o", "n", " ",
        "o", "n", "_", "c", "l", "i", "c", "k", "=", "\"", "1", " ", "&", "&", " ", "i",
        "n", "c", "(", ")", "\"", ">", "c", "<", "/", "b", "u", "t", "t", "o", "n", ">",
        "<", "b", "u", "t", "t", "o", "n", " ", "o", "n", "_", "c", "l", "i", "c", "k",
        "=", "\"", "c", " ", "|", "|", " ", "c", "l", "o", "s", "e", "(", ")", "\"", ">",
        "d", "<", "/", "b", "u", "t", "t", "o", "n", ">", "<", "l", "a", "b", "e", "l",
        ">", "{", "c", "}", "<", "/", "l", "a", "b", "e", "l", ">", "<", "/", "a", "p",
        "p", ">">>
ParamsApp ==
    <<"<", "a", "p", "p", ">", "<", "s", "c", "r", "i", "p", "t", ">", "v", "a", "r",
        " ", "a", " ", "=", " ", "5", " ", "f", "u", "n", "c", " ", "f", "(", "a", ")",
        " ", "{", " ", "a", " ", "=", " ", "7", " ", "}", " ", "f", "u", "n", "c", " ",
        "g", "(", "b", ",", " ", "b", ")", " ", "{", " ", "c", " ", "=", " ", "b", " ",
        "}", " ", "f", "u", "n", "c", " ", "h", "(", "d", ")", " ", "{", " ", "d", " ",
        "=", " ", "1", " ", "}", "<", "/", "s", "c", "r", "i", "p", "t", ">", "<", "b",
        "u", "t", "t", "o", "n", " ", "o", "n", "_", "c", "l", "i", "c", "k", "=", "\"",
        "f", "(", "1", ")", "\"", ">", "f", "<", "/", "b", "u", "t", "t", "o", "n", ">",
        "<", "b", "u", "t", "t", "o", "n", " ", "o", "n", "_", "c", "l", "i", "c", "k",
        "=", "\"", "g", "(", "1", ",", " ", "2", ")", "\"", ">", "g", "<", "/", "b", "u",
        "t", "t", "o", "n", ">", "<", "b", "u", "t", "t", "o", "n", " ", "o", "n", "_",
        "c", "l", "i", "c", "k", "=", "\"", "h", "(", ")", "\"", ">", "h", "<", "/", "b",
        "u", "t", "t", "o", "n", ">", "<", "b", "u", "t", "t", "o", "n", " ", "o", "n",
        "_", "c", "l", "i", "c", "k", "=", "\"", "c", " ", "=", " ", "2", "\"", ">", "c",
        "<", "/", "b", "u", "t", "t", "o", "n", ">", "<", "/", "a", "p", "p", ">">>
StartupApp ==
    <<"<", "a", "p", "p", ">", "<", "s", "c", "r", "i", "p", "t", ">", "v", "a", "r",
        " ", "x", " ", "=", " ", "c", "l", "o", "s", "e", "(", ")", " ", "v", "a", "r",
        " ", "c", " ", "=", " ", "0", "<", "/", "s", "c", "r", "i", "p", "t", ">", "<",
        "b", "u", "t", "t", "o", "n", " ", "o", "n", "_", "c", "l", "i", "c", "k", "=",
        "\"", "c", " ", "=", " ", "2", "\"", ">", "a", "<", "/", "b", "u", "t", "t", "o",
        "n", ">", "<", "b", "u", "t", "t", "o", "n", " ", "o", "n", "_", "c", "l", "i",
        "c", "k", "=", "\"", "m", "i", "n", "i", "m", "i", "z", "e", "(", ")", "\"", ">",
        "m", "<", "/", "b", "u", "t", "t", "o", "n", ">", "<", "l", "a", "b", "e", "l",
        ">", "{", "c", "}", "<", "/", "l", "a", "b", "e", "l", ">", "<", "/", "a", "p",
        "p", ">">>
PaFiles ==
    {CounterApp, SpacedCounterApp, UnclosedApp, OpenEndedApp, LogicApp, ParamsApp,
     StartupApp}

\* Label texts that a window may draw.
LabelTexts ==
    {<<"c", "=", "{", "c", "}">>, <<"{", "w", "}">>, <<"a", "b", "c">>, <<"{", "}">>,
        <<"{", "a", "}", "{", "c", "}">>, <<"a", "{", "c">>, <<"{", "w">>, <<"}", "{">>}

\* Clicks on buttons in one run.
MaxClicks == 3

PaInit ==
    /\ pa = NoPaWindow
    /\ pahist = [file |-> <<>>, clicks |-> 0, handler |-> <<>>, before |-> NoBindings,
                 action |-> ActionNone, text |-> <<>>, shown |-> <<>>]

\* The user runs a .pa file.
PaRunFile ==
    /\ ~pa.open
    /\ \E content \in PaFiles :
          /\ pa' = RunPaFile(PaPath, content)
          /\ pahist' = [pahist EXCEPT !.file = content]
    /\ UNCHANGED nonpa

\* The user clicks a button of the window.
PaClick ==
    /\ pa.open /\ pa.visible
    /\ pahist.clicks < MaxClicks
    /\ \E k \in 1 .. Len(pa.elements) :
          /\ pa.elements[k].kind = "Button"
          /\ pa.elements[k].on_click # <<>>
          /\ \E r \in {ClickButton(pa, k)} :
                /\ pa' = r.window
                /\ pahist' = [pahist EXCEPT !.clicks = @ + 1,
                                            !.handler = pa.elements[k].on_click[1],
                                            !.before = pa.script.variables,
                                            !.action = r.action,
                                            !.text = <<>>, !.shown = <<>>]
    /\ UNCHANGED nonpa

\* The window draws a label with some text.
PaRenderLabel ==
    /\ pa.open /\ pa.visible
    /\ \E text \in LabelTexts :
          pahist' = [pahist EXCEPT !.text = text,
                                   !.shown = Interpolate(pa.script.variables, text)]
    /\ UNCHANGED <<pa, nonpa>>

\* ------------------------------------------------------ script properties

\* s occurs in t as a contiguous part.
HasInfix(t, s) == \E i \in 0 .. Len(t) - Len(s) : SubSeq(t, i + 1, i + Len(s)) = s

\* C16: for an app whose script is `var c=0 func inc(){c=c+1}`, with a
\* button whose on_click is `inc()` and a label `{c}`, three clicks on the
\* button leave c equal to 3 and the label text equal to `3`.
C16_ThreeClicksCountThree ==
    (pahist.file = CounterApp /\ pahist.clicks = 3) =>
        /\ Get(pa.script.variables, <<"c">>) = <<VInt(3)>>
        /\ \A k \in 1 .. Len(pa.elements) :
               pa.elements[k].kind = "Label" => LabelShown(pa, k) = <<"3">>

\* C17: opening an app file that contains `<app title="x"` with no close
\* makes the desktop open an error window whose title is `Parse Error` and
\* whose body contains `Unexpected end of file`.
C17_UnclosedAppReportsUnexpectedEnd ==
    (pahist.file = UnclosedApp /\ pa.open) =>
        /\ pa.title = <<"P", "a", "r", "s", "e", " ", "E", "r", "r", "o", "r">>
        /\ \E k \in 1 .. Len(pa.elements) :
               /\ pa.elements[k].kind = "Label"
               /\ HasInfix(LabelShown(pa, k), <<"U", "n", "e", "x", "p", "e", "c", "t",
                   "e", "d", " ", "e", "n", "d", " ", "o", "f", " ", "f", "i", "l",
                   "e">>)

\* The last handler clicked is one statement `a && b` with a falsy a, or
\* `a || b` with a truthy a, where a is a literal or a variable.
RightOperandSkipped ==
    LET stmts == ParseInline(pahist.handler, 0, <<>>)
        x == stmts[1].expr
        a == IF x.left.e = "Literal" THEN x.left.val
             ELSE IF x.left.name \in DOMAIN pahist.before
             THEN pahist.before[x.left.name] ELSE VNull
    IN /\ pahist.clicks > 0
       /\ Len(stmts) = 1 /\ stmts[1].s = "ExprStmt" /\ x.e = "BinOp"
       /\ x.left.e \in {"Literal", "Var"}
       /\ \/ x.op = "And" /\ ~IsTruthy(a)
          \/ x.op = "Or" /\ IsTruthy(a)

\* C18: logical operators short-circuit: in `a && b` the right operand is
\* not evaluated when a is falsy, and in `a || b` it is not evaluated when a
\* is truthy, so a call in the right operand has no side effect in those
\* cases: the variables are as before the click and no action is pending.
C18_LogicalOperatorsShortCircuit ==
    RightOperandSkipped =>
        pa.script.variables = pahist.before /\ pahist.action = ActionNone

\* The last handler clicked is one call of a user function with literal
\* arguments: the call starts in the state in which the click found the
\* engine.
CalledFunction ==
    LET stmts == ParseInline(pahist.handler, 0, <<>>)
        x == stmts[1].expr
    IN IF /\ pahist.clicks > 0
          /\ Len(stmts) = 1 /\ stmts[1].s = "ExprStmt" /\ x.e = "Call"
          /\ x.name \in DOMAIN pa.script.functions
          /\ \A i \in 1 .. Len(x.args) : x.args[i].e = "Literal"
       THEN <<pa.script.functions[x.name]>> ELSE <<>>

\* C19: after a user-function call returns, every variable named by one of
\* the function's parameters has the binding (its value, or being unbound)
\* that it had immediately before the call, for every parameter list and
\* argument list.
C19_ParametersRestoredAfterCall ==
    CalledFunction # <<>> =>
        \A i \in 1 .. Len(CalledFunction[1].params) :
            Get(pa.script.variables, CalledFunction[1].params[i])
                = Get(pahist.before, CalledFunction[1].params[i])

\* C20: interpolate(s) is the identity on every string that contains no
\* `{name}` token, replaces each `{name}` whose name is a bound variable by
\* that variable's string form, and keeps every unbound `{w}` verbatim.  A
\* token is a `{`, a name without `}`, and a `}`; the text before the first
\* token is kept, the token is replaced or kept, and the text after it is
\* interpolated in the same way.
C20_InterpolateReplacesBoundNames ==
    LET text == pahist.text
        variables == pa.script.variables
        first == {i \in 1 .. Len(text) :
                     text[i] = "{" /\ \A k \in 1 .. i - 1 : text[k] # "{"}
        close(i) == {j \in i + 1 .. Len(text) :
                        text[j] = "}" /\ \A k \in i + 1 .. j - 1 : text[k] # "}"}
    IN /\ (\A i \in first : close(i) = {}) => pahist.shown = text
       /\ \A i \in first : \A j \in close(i) :
              pahist.shown =
                  SubSeq(text, 1, i - 1)
                  \o (IF SubSeq(text, i + 1, j - 1) \in DOMAIN variables
                      THEN ToDisplay(variables[SubSeq(text, i + 1, j - 1)])
                      ELSE SubSeq(text, i, j))
                  \o Interpolate(variables, SubSeq(text, j + 1, Len(text)))


\* The last click ran a handler that is one assignment of a literal: it calls
\* no function.
HandlerCallsNothing ==
    LET stmts == ParseInline(pahist.handler, 0, <<>>)
    IN /\ pahist.clicks > 0
       /\ Len(stmts) = 1 /\ stmts[1].s = "Assign" /\ stmts[1].value.e = "Literal"

\* C21: an action that close(), open(id) or minimize() put into the engine's
\* pending-action slot is read and cleared after the handler that set it
\* returns: the slot of an open window is empty whenever a handler may start,
\* and a click whose handler calls nothing is given no action.
C21_PendingActionClearedAfterHandler ==
    /\ pa.open => pa.script.pending_action = ActionNone
    /\ HandlerCallsNothing => pahist.action = ActionNone

\* ------------------------------------------- execute_stmt, While, by rounds

\* Scripts of one while statement over the variable c, which starts at 0: a
\* condition that is always true, one that turns false after three rounds,
\* one that is false at once, and one that outlasts the cap.
WhileSources ==
    {<<"w", "h", "i", "l", "e", " ", "1", " ", "{", " ", "c", " ", "=", " ", "c", " ",
        "+", " ", "1", " ", "}">>, <<"w", "h", "i", "l", "e", " ", "c", " ", "<", " ",
        "3", " ", "{", " ", "c", " ", "=", " ", "c", " ", "+", " ", "1", " ", "}">>,
        <<"w", "h", "i", "l", "e", " ", "0", " ", "{", " ", "c", " ", "=", " ", "c", " ",
        "+", " ", "1", " ", "}">>,
     <<"w", "h", "i", "l", "e", " ", "c", " ", "<", " ", "2", "0", "0", "0", "0", " ",
         "{", " ", "c", " ", "=", " ", "c", " ", "+", " ", "2", " ", "}">>}

\* No while statement is being executed.
WlInit ==
    wl = [phase |-> "idle", st |-> NewScriptEngine, stmt |-> <<>>, iterations |-> 0,
          body_runs |-> 0]

\* execute_stmt reaches a while statement: `let mut iterations = 0`.
WhileStart ==
    /\ wl.phase = "idle"
    /\ \E source \in WhileSources : \E stmts \in {ParseInline(source, 0, <<>>)} :
          /\ Len(stmts) = 1 /\ stmts[1].s = "While"
          /\ wl' = [phase |-> "loop",
                    st |-> [NewScriptEngine EXCEPT
                                !.variables = Insert(@, <<"c">>, VInt(0))],
                    stmt |-> stmts, iterations |-> 0, body_runs |-> 0]
    /\ UNCHANGED nonwl

\* One round: the condition is evaluated and the loop test passes, the body
\* is executed and `iterations += 1`.
WhileIterate ==
    /\ wl.phase = "loop"
    /\ \E c \in {Evaluate(wl.st, wl.stmt[1].condition)} :
          /\ WhileContinues(c.val, wl.iterations)
          /\ wl' = [wl EXCEPT !.st = ExecuteStmts(c.st, wl.stmt[1].body, 1),
                              !.iterations = @ + 1, !.body_runs = @ + 1]
    /\ UNCHANGED nonwl

\* The condition is evaluated and the loop test fails: the statement is done.
WhileExit ==
    /\ wl.phase = "loop"
    /\ \E c \in {Evaluate(wl.st, wl.stmt[1].condition)} :
          /\ ~WhileContinues(c.val, wl.iterations)
          /\ wl' = [wl EXCEPT !.st = c.st, !.phase = "done"]
    /\ UNCHANGED nonwl

NextWhile ==
    \/ WhileStart
    \/ WhileIterate
    \/ WhileExit

\* C22: the execution of a while statement runs its body at most 10 000
\* times and then terminates, whatever the loop condition evaluates to.
C22_WhileRunsAtMostLimitAndTerminates ==
    /\ [](wl.body_runs <= 10000)
    /\ (wl.phase = "loop") ~> (wl.phase = "done")

\* A loop whose condition never turned false has ended after 10 000 rounds.
C22_Witness ==
    /\ wl.phase = "done" /\ wl.body_runs = 10000
    /\ IsTruthy(Evaluate(wl.st, wl.stmt[1].condition).val)

\* ------------------------------------------------- compositor pass, kinds

\* The windows that the last compositor pass painted more than once among
\* the full, the content and the typing render.
PaintedTwice ==
    (whist.pass.full \cap whist.pass.content)
    \cup (whist.pass.full \cap whist.pass.typing)
    \cup (whist.pass.content \cap whist.pass.typing)

\* C23: within one compositor pass the dirty entries for the same window
\* collapse to the strongest kind: a visible window that the list names is
\* painted once, by the full render if the list has a FullWindow entry for
\* it, else by the content render if it has a ContentOnly entry, else by the
\* typing render, in whatever order the entries were inserted.
C23_EntriesCollapseToStrongest ==
    whist.pass.ran =>
        /\ PaintedTwice = {}
        /\ whist.pass.listed_full \cap whist.pass.shown \subseteq whist.pass.full
        /\ (whist.pass.listed_content \cap whist.pass.shown) \ whist.pass.full
               \subseteq whist.pass.content
        /\ (whist.pass.listed_typing \cap whist.pass.shown)
               \ (whist.pass.full \cup whist.pass.content) \subseteq whist.pass.typing

\* -------------------------------------------------------- Screen (screen.rs)

\* The pixel formats of the model; U8 and Unknown are left out.
PixelFormats == {"Rgb", "Bgr"}

\* A 32-bit colour 0xAARRGGBB, as its four bytes.
Argb(alpha, red, green, blue) == <<alpha, red, green, blue>>
AlphaOf(hex) == hex[1]
RedOf(hex) == hex[2]
GreenOf(hex) == hex[3]
BlueOf(hex) == hex[4]

\* color_to_bytes: a colour without alpha that is not black is opaque.
ColorToBytes(hex, format) ==
    LET alpha == IF AlphaOf(hex) = 0 /\ RedOf(hex) + GreenOf(hex) + BlueOf(hex) # 0
                 THEN 255 ELSE AlphaOf(hex)
    IN IF format = "Bgr" THEN <<BlueOf(hex), GreenOf(hex), RedOf(hex), alpha>>
       ELSE <<RedOf(hex), GreenOf(hex), BlueOf(hex), alpha>>

\* `old ^ 0x00FFFFFF` on a 32-bit colour.
XorColor(old) ==
    Argb(AlphaOf(old), 255 - RedOf(old), 255 - GreenOf(old), 255 - BlueOf(old))

\* What the boot loader's framebuffer holds at a byte offset.
BootByte(offset) == (37 * offset + 11) % 256

\* Screen::new on a framebuffer of stride * height pixels.
ScreenNew(width, height, bytes_per_pixel, stride, pixel_format) ==
    [width |-> width, height |-> height, bytes_per_pixel |-> bytes_per_pixel,
     stride |-> stride,
     framebuffer |-> [o \in 1 .. stride * height * bytes_per_pixel |-> BootByte(o - 1)],
     pixel_format |-> pixel_format, back_buffer |-> <<>>, use_back_buffer |-> FALSE]

\* Screen::enable_double_buffer
EnableDoubleBuffer(s) ==
    [s EXCEPT !.back_buffer = IF @ = <<>> THEN [o \in 1 .. Len(s.framebuffer) |-> 0]
                              ELSE @,
              !.use_back_buffer = TRUE]

\* Screen::disable_double_buffer
DisableDoubleBuffer(s) == [s EXCEPT !.use_back_buffer = FALSE]

\* Screen::swap_buffers
SwapBuffers(s) ==
    IF s.use_back_buffer /\ s.back_buffer # <<>>
    THEN [s EXCEPT !.framebuffer =
              [o \in 1 .. Len(@) |-> IF o <= Len(s.back_buffer) THEN s.back_buffer[o]
                                     ELSE @[o]]]
    ELSE s

\* The byte offset of a pixel in either buffer.
OffsetOf(s, x, y) == (y * s.stride + x) * s.bytes_per_pixel

\* The buffer with bytes_per_pixel of the bytes stored from the offset on.
StoreBytes(buffer, offset, n, bytes) ==
    [o \in 1 .. Len(buffer) |->
        IF o > offset /\ o <= offset + n THEN bytes[o - offset] ELSE buffer[o]]

\* Screen::write_to_buffer
WriteToBuffer(s, x, y, bytes) ==
    LET offset == OffsetOf(s, x, y)
        n == s.bytes_per_pixel
    IN IF s.use_back_buffer /\ s.back_buffer # <<>>
       THEN IF offset + n <= Len(s.back_buffer)
            THEN [s |-> [s EXCEPT !.back_buffer = StoreBytes(@, offset, n, bytes)],
                  ok |-> TRUE]
            ELSE [s |-> s, ok |-> FALSE]
       ELSE IF offset + n <= Len(s.framebuffer)
            THEN [s |-> [s EXCEPT !.framebuffer = StoreBytes(@, offset, n, bytes)],
                  ok |-> TRUE]
            ELSE [s |-> s, ok |-> FALSE]

\* Screen::write_pixel: a colour whose alpha byte is 0 is not written.
WritePixel(s, x, y, color) ==
    Only({IF bytes[4] = 0 THEN [s |-> s, ok |-> TRUE] ELSE WriteToBuffer(s, x, y, bytes)
          : bytes \in {ColorToBytes(color, s.pixel_format)}})

\* Screen::read_pixel: three bytes of the framebuffer, taken as blue, green
\* and red.
ReadPixel(s, x, y) ==
    LET offset == OffsetOf(s, x, y)
    IN IF offset + s.bytes_per_pixel <= Len(s.framebuffer)
       THEN Argb(255, s.framebuffer[offset + 3], s.framebuffer[offset + 2],
                 s.framebuffer[offset + 1])
       ELSE Argb(0, 0, 0, 0)

\* The buffer that write_to_buffer writes to.
ActiveBuffer(s) ==
    IF s.use_back_buffer /\ s.back_buffer # <<>> THEN s.back_buffer ELSE s.framebuffer

\* `old = read_pixel(x, y); write_pixel(x, y, old ^ xor_val)` for each pixel of
\* a set; draw_xor_outline visits no pixel twice.
RECURSIVE XorEach(_, _)
XorEach(s, todo) ==
    IF todo = {} THEN s
    ELSE Only({XorEach(WritePixel(s, p[1], p[2], XorColor(ReadPixel(s, p[1], p[2]))).s,
                       todo \ {p})
               : p \in {CHOOSE q \in todo : TRUE}})

\* draw_xor_outline on a screen: the dashed edges of the rectangle, clipped
\* to the screen.
ScreenDrawXorOutline(s, rect) == XorEach(s, XorPixels(rect))

\* ------------------------------------------------ the screen, call by call

\* Bytes of a pixel in the boot loader's framebuffer.
BytesPerPixel == 4

\* Pixels that a row of the framebuffer may be longer than the screen is wide.
MaxRowPadding == 1

\* Calls of write_pixel in one run.
MaxWrites == 1

\* Coordinates that write_pixel is called with: the first and the last pixel
\* of a row or column, and the first one beyond.
WriteXs == {0, SCREEN_W - 1, SCREEN_W}
WriteYs == {0, SCREEN_H - 1, SCREEN_H}

\* Colours that write_pixel is called with: an opaque one and the
\* transparent 0.
WriteColors == {Argb(255, 18, 52, 86), Argb(0, 0, 0, 0)}

\* Rectangles that draw_xor_outline is called with: inside the screen,
\* across its edges, larger than it, a single row, a single column.
XorRects ==
    {MkRect(x, y, w, h) : x \in {-1, 0, SCREEN_W - 2}, y \in {-1, 0, SCREEN_H - 2},
                          w \in {1, 3, SCREEN_W + 2}, h \in {1, 3}}

NoScreenCall ==
    [op |-> "none", before |-> <<>>, rect |-> MkRect(0, 0, 0, 0), x |-> 0, y |-> 0,
     color |-> Argb(0, 0, 0, 0), ok |-> FALSE, writes |-> 0]

\* The screen as init_screen hands it over, in either pixel format and with
\* or without padding at the end of each row.
ScrInit ==
    \E format \in PixelFormats, padding \in 0 .. MaxRowPadding :
        scr = [s |-> ScreenNew(SCREEN_W, SCREEN_H, BytesPerPixel, SCREEN_W + padding,
                               format),
               call |-> NoScreenCall]

\* The screen of the runs that make no call of it.
ScrIdle ==
    scr = [s |-> ScreenNew(SCREEN_W, SCREEN_H, BytesPerPixel, SCREEN_W, "Bgr"),
           call |-> NoScreenCall]

ScrEnableDoubleBuffer ==
    /\ ~scr.s.use_back_buffer /\ scr.call.op \in {"none", "write"}
    /\ scr' = [s |-> EnableDoubleBuffer(scr.s),
        call |-> [scr.call EXCEPT !.op = "none"]]
    /\ UNCHANGED nonscr

ScrDisableDoubleBuffer ==
    /\ scr.s.use_back_buffer /\ scr.call.op \in {"none", "write"}
    /\ scr' = [s |-> DisableDoubleBuffer(scr.s),
        call |-> [scr.call EXCEPT !.op = "none"]]
    /\ UNCHANGED nonscr

ScrSwapBuffers ==
    /\ scr.s.use_back_buffer /\ scr.call.op \in {"none", "write"}
    /\ scr' = [s |-> SwapBuffers(scr.s), call |-> [scr.call EXCEPT !.op = "none"]]
    /\ UNCHANGED nonscr

\* A caller writes one pixel, inside the screen or beyond it.
ScrWritePixel ==
    /\ scr.call.op \in {"none", "write"} /\ scr.call.writes < MaxWrites
    /\ \E x \in WriteXs, y \in WriteYs, color \in WriteColors :
          \E done \in {WritePixel(scr.s, x, y, color)} :
              scr' = [s |-> done.s,
                      call |-> [scr.call EXCEPT !.op = "write", !.before = <<scr.s>>,
                                                !.x = x, !.y = y, !.color = color,
                                                !.ok = done.ok, !.writes = @ + 1]]
    /\ UNCHANGED nonscr

\* The outline of a drag is drawn.
ScrDrawXorOutline ==
    /\ scr.call.op \in {"none", "write"}
    /\ \E rect \in XorRects :
          scr' = [s |-> ScreenDrawXorOutline(scr.s, rect),
                  call |-> [scr.call EXCEPT !.op = "xor", !.before = <<scr.s>>,
                                            !.rect = rect]]
    /\ UNCHANGED nonscr

\* The outline is drawn once more at the same rectangle, which erases it.
ScrDrawXorAgain ==
    /\ scr.call.op = "xor"
    /\ scr' = [s |-> ScreenDrawXorOutline(scr.s, scr.call.rect),
               call |-> [scr.call EXCEPT !.op = "xor twice"]]
    /\ UNCHANGED nonscr

NextScr ==
    \/ ScrEnableDoubleBuffer
    \/ ScrDisableDoubleBuffer
    \/ ScrSwapBuffers
    \/ ScrWritePixel
    \/ ScrDrawXorOutline
    \/ ScrDrawXorAgain

\* The colour bytes of the screen's pixels in a buffer (an empty buffer holds
\* none).
PixelsIn(s, buffer) ==
    IF buffer = <<>> THEN <<>>
    ELSE [p \in Pixels |-> SubSeq(buffer, OffsetOf(s, p[1], p[2]) + 1,
                                  OffsetOf(s, p[1], p[2]) + 3)]

\* C25: drawing the XOR outline twice at the same rectangle exactly restores
\* the original pixels, for every rectangle position and size and in every
\* buffering mode of the screen: the pixels of both buffers are as before the
\* first draw.
C25_XorOutlineTwiceRestores ==
    scr.call.op = "xor twice" =>
        /\ PixelsIn(scr.s, scr.s.framebuffer)
               = PixelsIn(scr.s, scr.call.before[1].framebuffer)
        /\ PixelsIn(scr.s, scr.s.back_buffer)
               = PixelsIn(scr.s, scr.call.before[1].back_buffer)

\* C29: a write_pixel call with out-of-bounds coordinates (x >= width or
\* y >= height) silently fails: no byte of the active buffer is changed.
C29_OutOfBoundsWriteChangesNothing ==
    (/\ scr.call.op = "write"
     /\ scr.call.x >= scr.s.width \/ scr.call.y >= scr.s.height)
    => ActiveBuffer(scr.s) = ActiveBuffer(scr.call.before[1])

\* ------------------------------------------------------- cursor (cursor.rs)

\* The sprite is 12 by 19 pixels in cursor.rs.
CURSOR_WIDTH == 2
CURSOR_HEIGHT == 3

\* CURSOR_SHAPE by row and column, from 0: 1 is drawn, 0 is transparent.
CURSOR_SHAPE == <<<<1, 0>>, <<1, 1>>, <<1, 0>>>>
ShapeAt(row, col) == CURSOR_SHAPE[row + 1][col + 1]
Cells == (0 .. CURSOR_HEIGHT - 1) \X (0 .. CURSOR_WIDTH - 1)

\* theme.rs: COLOR_CURSOR is 0xFFFFFFFF.
COLOR_CURSOR == Argb(255, 255, 255, 255)

\* Calls of the cursor module in one run.
MaxCursorCalls == 3

\* Positions that the mouse hands to the cursor module.
CursorXs == {0, 1, SCREEN_W - 1}
CursorYs == {0, SCREEN_H - 1}

\* The cells of the sprite that lie on the screen when it is at (x, y),
\* `px < SCREEN_W && py < SCREEN_H`.
OnScreen(x, y, cell) == x + cell[2] < SCREEN_W /\ y + cell[1] < SCREEN_H

\* save_background_at
SaveBackgroundAt(c, x, y) ==
    [c EXCEPT !.saved_bg =
        [cell \in Cells |->
            IF OnScreen(x, y, cell) THEN ReadPixel(c.s, x + cell[2], y + cell[1])
            ELSE Argb(0, 0, 0, 0)]]

\* write_pixel for each of a set of <<x, y, colour>>, no pixel twice.
RECURSIVE WriteEach(_, _)
WriteEach(s, todo) ==
    IF todo = {} THEN s
    ELSE Only({WriteEach(WritePixel(s, w[1], w[2], w[3]).s, todo \ {w})
               : w \in {CHOOSE v \in todo : TRUE}})

\* The cells that restore_background and draw_cursor_at write.
DrawnCells(x, y) == {cell \in Cells : ShapeAt(cell[1], cell[2]) = 1 /\ OnScreen(x, y,
    cell)}

\* restore_background: the saved pixels are written back at the last drawn
\* position.
RestoreBackground(c) ==
    [c EXCEPT !.s = WriteEach(@, {<<c.drawn_x + cell[2], c.drawn_y + cell[1],
                                    c.saved_bg[cell]>> :
                                  cell \in DrawnCells(c.drawn_x, c.drawn_y)})]

\* draw_cursor_at
DrawCursorAt(c, x, y) ==
    [c EXCEPT !.s = WriteEach(@, {<<x + cell[2], y + cell[1], COLOR_CURSOR>> :
                                  cell \in DrawnCells(x, y)}),
              !.drawn_x = x, !.drawn_y = y, !.visible = TRUE]

\* draw_at and show_at
DrawAt(c, x, y) == Only({DrawCursorAt(saved, x, y) : saved \in {SaveBackgroundAt(c, x,
    y)}})
ShowAt(c, x, y) == DrawAt(c, x, y)

\* hide
Hide(c) == IF c.visible THEN [RestoreBackground(c) EXCEPT !.visible = FALSE] ELSE c

\* move_to
MoveTo(c, new_x, new_y) ==
    IF c.visible /\ new_x = c.drawn_x /\ new_y = c.drawn_y THEN c
    ELSE Only({DrawAt(restored, new_x, new_y) :
               restored \in {IF c.visible THEN RestoreBackground(c) ELSE c}})

\* The screen as run_gui has it when it calls cursor::init, and the cursor
\* after init.
CursorScreen == ScreenNew(SCREEN_W, SCREEN_H, BytesPerPixel, SCREEN_W, "Bgr")
CurInit ==
    cur = [s |-> CursorScreen, saved_bg |-> [cell \in Cells |-> Argb(0, 0, 0, 0)],
           drawn_x |-> -100, drawn_y |-> -100, visible |-> FALSE, calls |-> 0,
           overdrawn |-> FALSE]

\* The calls of the module.  `overdrawn` records that draw_at or show_at was
\* called while the cursor was visible.
CurDrawAt ==
    /\ cur.calls < MaxCursorCalls
    /\ \E x \in CursorXs, y \in CursorYs :
          cur' = [DrawAt(cur, x, y) EXCEPT !.calls = @ + 1,
                                           !.overdrawn = @ \/ cur.visible]
    /\ UNCHANGED noncur

CurShowAt ==
    /\ cur.calls < MaxCursorCalls
    /\ \E x \in CursorXs, y \in CursorYs :
          cur' = [ShowAt(cur, x, y) EXCEPT !.calls = @ + 1,
                                           !.overdrawn = @ \/ cur.visible]
    /\ UNCHANGED noncur

CurHide ==
    /\ cur.calls < MaxCursorCalls
    /\ cur' = [Hide(cur) EXCEPT !.calls = @ + 1]
    /\ UNCHANGED noncur

CurMoveTo ==
    /\ cur.calls < MaxCursorCalls
    /\ \E x \in CursorXs, y \in CursorYs :
          cur' = [MoveTo(cur, x, y) EXCEPT !.calls = @ + 1]
    /\ UNCHANGED noncur

NextCur ==
    \/ CurDrawAt
    \/ CurShowAt
    \/ CurHide
    \/ CurMoveTo

\* C24: after any sequence of draw_at, show_at, hide and move_to calls that
\* ends with the cursor visible at (x, y), the save buffer holds the
\* background pixels that were under the sprite at (x, y) before the cursor
\* was drawn there.  Nothing but the cursor module writes to the screen in
\* these runs, so the background is what the screen held at the start.
C24_SaveBufferHoldsBackground ==
    cur.visible =>
        \A cell \in Cells :
            OnScreen(cur.drawn_x, cur.drawn_y, cell) =>
                cur.saved_bg[cell]
                    = ReadPixel(CursorScreen, cur.drawn_x + cell[2],
                        cur.drawn_y + cell[1])

\* ------------------------------------------------------- mouse (mouse.rs)

\* Bytes that the PS/2 controller delivers: first bytes with and without
\* bit 3, with the sign bits, with a button, with the overflow bits, and
\* small and large movements.
MouseBytes == {1, 8, 25, 40, 72}

\* On which side of 0 .. max - 1 a coordinate lies.
Side(v, max) == IF v < 0 THEN -1 ELSE IF v >= max THEN 1 ELSE 0

\* Bit n of a byte.
Bit(byte, n) == (byte \div (2 ^ n)) % 2 = 1

\* i32::clamp without its upper bound.
ClampLow(v, lo, hi) == IF v < lo THEN lo ELSE v

\* i32::clamp
Clamp(v, lo, hi) == IF v < lo THEN lo ELSE IF v > hi THEN hi ELSE v

\* mouse::init(w, h): the statics after it.
MouseInit(w, h) ==
    [x |-> w \div 2, y |-> h \div 2, left |-> FALSE, right |-> FALSE,
     max_x |-> w, max_y |-> h, packet_idx |-> 0, packet_buf |-> <<0, 0, 0>>,
     side_x |-> 0, side_y |-> 0]

\* process_byte up to the store into PACKET_BUF; `stored` tells whether the
\* byte was taken.
TakeByte(m, byte) ==
    IF m.packet_idx = 0 /\ ~Bit(byte, 3) THEN [m |-> m, stored |-> FALSE, idx |-> 0]
    ELSE [m |-> [m EXCEPT !.packet_buf[m.packet_idx + 1] = byte], stored |-> TRUE,
          idx |-> m.packet_idx]

\* process_byte after the store, idx being the index it loaded at its start:
\* with the third byte the packet is decoded, the buttons are stored and the
\* position is moved and clamped.  side_x and side_y record where the
\* position was before the clamp.
FinishByte(m, idx) ==
    LET b0 == m.packet_buf[1]
        b1 == m.packet_buf[2]
        b2 == m.packet_buf[3]
        dx == IF Bit(b0, 4) THEN b1 - 256 ELSE b1
        dy == IF Bit(b0, 5) THEN b2 - 256 ELSE b2
    IN IF idx # 2 THEN [m EXCEPT !.packet_idx = idx + 1]
       ELSE IF Bit(b0, 6) \/ Bit(b0, 7) THEN [m EXCEPT !.packet_idx = 0]
       ELSE [m EXCEPT !.packet_idx = 0,
                      !.left = Bit(b0, 0), !.right = Bit(b0, 1),
                      !.x = Clamp(m.x + dx, 0, m.max_x - 1),
                      !.y = Clamp(m.y - dy, 0, m.max_y - 1),
                      !.side_x = Side(m.x + dx, m.max_x),
                      !.side_y = Side(m.y - dy, m.max_y)]

\* process_byte
ProcessByte(m, byte) ==
    Only({IF t.stored THEN FinishByte(t.m, t.idx) ELSE t.m : t \in {TakeByte(m, byte)}})

\* run_gui has called mouse::init with the size of the screen; poll is not
\* inside process_byte.
MsInit == ms = [m |-> MouseInit(SCREEN_W, SCREEN_H), polling |-> FALSE, idx |-> 0]

\* mouse::poll reads a byte of the mouse and process_byte stores it.
MsPollTake ==
    /\ ~ms.polling
    /\ \E byte \in MouseBytes : \E t \in {TakeByte(ms.m, byte)} :
          ms' = [m |-> t.m, polling |-> t.stored, idx |-> t.idx]
    /\ UNCHANGED nonms

\* process_byte, called by poll, goes on after the store.
MsPollFinish ==
    /\ ms.polling
    /\ ms' = [m |-> FinishByte(ms.m, ms.idx), polling |-> FALSE, idx |-> 0]
    /\ UNCHANGED nonms

\* IRQ 12: handle_interrupt reads a byte and runs process_byte to its end,
\* between two steps of the main loop.
MsInterrupt ==
    /\ \E byte \in MouseBytes : ms' = [ms EXCEPT !.m = ProcessByte(@, byte)]
    /\ UNCHANGED nonms

NextMs ==
    \/ MsPollTake
    \/ MsPollFinish
    \/ MsInterrupt

\* C26: for any sequence of mouse packets, 0 <= x < screen_w and
\* 0 <= y < screen_h always hold for the stored pointer position.
C26_PointerStaysOnScreen ==
    /\ 0 <= ms.m.x /\ ms.m.x < SCREEN_W
    /\ 0 <= ms.m.y /\ ms.m.y < SCREEN_H

\* A packet has moved the pointer beyond the right edge and above the top
\* edge, and the position was clamped.
C26_Witness ==
    /\ ms.m.side_x = 1 /\ ms.m.x = SCREEN_W - 1
    /\ ms.m.side_y = -1 /\ ms.m.y = 0

\* ------------------------------------------------------- ATA (ata.rs)

ATA_STATUS_BSY == 128
ATA_STATUS_DRQ == 8
ATA_STATUS_ERR == 1

\* let mut timeout = 100000, scaled down
ATA_TIMEOUT == 1000

\* What the status port returns to a read: ready, ready with data requested,
\* error, busy, and busy with the other bits set.
AtaStatuses == {80, 88, 81, 208, 217}

\* (s & mask) != 0, for a mask of one bit
StatusHas(s, mask) == (s \div mask) % 2 = 1

\* A spin that never gives up.
ExpiredNever(timeout) == FALSE

\* timeout -= 1; if timeout == 0
Expired(timeout) == timeout - 1 = 0

AtaErrors ==
    {"Drive busy timeout", "Read error", "Write error", "DRQ timeout", "Flush timeout"}

AtaIdle ==
    [op |-> "none", pc |-> "idle", timeout |-> 0, polls |-> 0, result |-> "none",
     status |-> 0, wait |-> "none"]

\* The entry of read_sector_from and write_sector_to up to the first poll.
AtaEnter(op) ==
    [op |-> op, pc |-> "busy_wait", timeout |-> ATA_TIMEOUT, polls |-> 0,
     result |-> "none", status |-> 0, wait |-> "none"]

\* A return of the operation; s is the status that the last poll has read
\* and wait the wait that this poll belongs to.
AtaReturn(a, s, result) ==
    [a EXCEPT !.pc = "done", !.polls = @ + 1, !.result = result, !.status = s,
              !.wait = a.pc]

\* The next wait of the operation begins.
AtaGoOn(a, pc) ==
    [a EXCEPT !.pc = pc, !.timeout = ATA_TIMEOUT, !.polls = 0]

\* One more round of a wait.
AtaSpin(a) == [a EXCEPT !.timeout = @ - 1, !.polls = @ + 1]

\* One round of `while (status.read() & ATA_STATUS_BSY) != 0`, with the
\* error of its expiry and the place where the operation goes on.
WaitNotBusy(a, s, error, next) ==
    IF StatusHas(s, ATA_STATUS_BSY)
    THEN IF Expired(a.timeout) THEN AtaReturn(a, s, error) ELSE AtaSpin(a)
    ELSE IF next = "done" THEN AtaReturn(a, s, "Ok") ELSE AtaGoOn(a, next)

\* One round of the loop that waits for DRQ.  After it a read takes the 256
\* words of the sector and returns; a write sends them and the flush command.
WaitDrq(a, s) ==
    IF StatusHas(s, ATA_STATUS_ERR)
    THEN AtaReturn(a, s, IF a.op = "read" THEN "Read error" ELSE "Write error")
    ELSE IF StatusHas(s, ATA_STATUS_DRQ)
    THEN IF a.op = "read" THEN AtaReturn(a, s, "Ok") ELSE AtaGoOn(a, "flush_wait")
    ELSE IF Expired(a.timeout) THEN AtaReturn(a, s, "DRQ timeout")
    ELSE AtaSpin(a)

AtaInit == ata = AtaIdle

\* read_sector_from is called.
AtaReadSector ==
    /\ ata.pc \in {"idle", "done"}
    /\ ata' = AtaEnter("read")
    /\ UNCHANGED nonata

\* write_sector_to is called.
AtaWriteSector ==
    /\ ata.pc \in {"idle", "done"}
    /\ ata' = AtaEnter("write")
    /\ UNCHANGED nonata

\* The wait for not busy; then the drive, the sector count and the LBA are
\* written and the command is sent.
AtaWaitNotBusy ==
    /\ ata.pc = "busy_wait"
    /\ \E s \in AtaStatuses :
          ata' = WaitNotBusy(ata, s, "Drive busy timeout", "drq_wait")
    /\ UNCHANGED nonata

AtaWaitDrq ==
    /\ ata.pc = "drq_wait"
    /\ \E s \in AtaStatuses : ata' = WaitDrq(ata, s)
    /\ UNCHANGED nonata

\* write_sector_to waits for the flush to complete.
AtaWaitFlush ==
    /\ ata.pc = "flush_wait"
    /\ \E s \in AtaStatuses : ata' = WaitNotBusy(ata, s, "Flush timeout", "done")
    /\ UNCHANGED nonata

NextAta ==
    \/ AtaReadSector
    \/ AtaWriteSector
    \/ AtaWaitNotBusy
    \/ AtaWaitDrq
    \/ AtaWaitFlush

AtaRunning == ata.pc \in {"busy_wait", "drq_wait", "flush_wait"}

\* What a returned operation has returned, by the wait that ended it and
\* the status that its last poll has read.
AtaReturnsAsStated ==
    LET busy == StatusHas(ata.status, ATA_STATUS_BSY)
        drq == StatusHas(ata.status, ATA_STATUS_DRQ)
        err == StatusHas(ata.status, ATA_STATUS_ERR)
        given_up == ata.polls = ATA_TIMEOUT
    IN ata.pc = "done" =>
        /\ ata.result \in AtaErrors \cup {"Ok"}
        /\ ata.wait = "busy_wait" =>
              busy /\ given_up /\ ata.result = "Drive busy timeout"
        /\ ata.wait = "drq_wait" /\ err =>
              ata.result = (IF ata.op = "read" THEN "Read error" ELSE "Write error")
        /\ ata.wait = "drq_wait" /\ ~err /\ ~drq => given_up /\ ata.result = "DRQ timeout"
        /\ ata.wait = "drq_wait" /\ ~err /\ drq => ata.op = "read" /\ ata.result = "Ok"
        /\ ata.wait = "flush_wait" /\ busy => given_up /\ ata.result = "Flush timeout"
        /\ ata.wait = "flush_wait" /\ ~busy => ata.op = "write" /\ ata.result = "Ok"

\* C28: every single-sector read or write terminates: each status poll
\* gives up after at most ATA_TIMEOUT reads of the status, and the operation
\* returns a static error when BSY never clears, when DRQ is never raised
\* and when the wait for DRQ reads ERR set.
C28_SectorOperationTerminates ==
    /\ [](ata.polls <= ATA_TIMEOUT /\ AtaReturnsAsStated)
    /\ AtaRunning ~> (ata.pc = "done")

\* A write has given up its wait for DRQ after ATA_TIMEOUT polls.
C28_Witness ==
    /\ ata.pc = "done" /\ ata.op = "write"
    /\ ata.result = "DRQ timeout" /\ ata.polls = ATA_TIMEOUT

\* ----------------------------------- clicks on scripted buttons (run_gui)

\* A .pa app with a button that changes a variable, a button that calls
\* minimize(), a button that calls close(), a dynamic and a static label.
ButtonsApp ==
    <<"<", "a", "p", "p", " ", "t", "i", "t", "l", "e", "=", "\"", "b", "\"", ">", "<",
        "s", "c", "r", "i", "p", "t", ">", "v", "a", "r", " ", "c", " ", "=", " ", "0",
        "<", "/", "s", "c", "r", "i", "p", "t", ">", "<", "b", "u", "t", "t", "o", "n",
        " ", "o", "n", "_", "c", "l", "i", "c", "k", "=", "\"", "c", " ", "=", " ", "c",
        " ", "+", " ", "1", "\"", ">", "+", "<", "/", "b", "u", "t", "t", "o", "n", ">",
        "<", "b", "u", "t", "t", "o", "n", " ", "o", "n", "_", "c", "l", "i", "c", "k",
        "=", "\"", "m", "i", "n", "i", "m", "i", "z", "e", "(", ")", "\"", ">", "m", "<",
        "/", "b", "u", "t", "t", "o", "n", ">", "<", "b", "u", "t", "t", "o", "n", " ",
        "o", "n", "_", "c", "l", "i", "c", "k", "=", "\"", "c", "l", "o", "s", "e", "(",
        ")", "\"", ">", "x", "<", "/", "b", "u", "t", "t", "o", "n", ">", "<", "l", "a",
        "b", "e", "l", ">", "{", "c", "}", "<", "/", "l", "a", "b", "e", "l", ">", "<",
        "l", "a", "b", "e", "l", ">", "c", "<", "/", "l", "a", "b", "e", "l", ">", "<",
        "/", "a", "p", "p", ">">>

ClkApps == {CounterApp, ButtonsApp}

\* The desktop holds two .pa windows, side by side.
ClkWindows == {0, 1}
ClkBounds(i) == MkRect(i * 400, 0, 400, 300)

\* Iterations of run_gui's loop in one run.
MaxClkFrames == 4

NoClkFrame ==
    [pressed |-> FALSE, target |-> <<>>, action |-> <<>>, on_top |-> FALSE,
     desktop_render |-> FALSE, full |-> {}, labels |-> {}]

NoClk ==
    [opened |-> FALSE, windows |-> [i \in ClkWindows |-> NoPaWindow],
     z_order |-> NewZOrder, window_count |-> 0, last_mouse_down |-> FALSE,
     dirty_rects |-> <<>>, dirty_regions |-> <<>>, label_update_windows |-> <<>>,
     frames |-> 0, frame |-> NoClkFrame]

\* Desktop::run_pa_file and WindowManager::add_app: the window is added on
\* top of the z-order and its rectangle is marked dirty.
ClkRunPaFile(c, content) ==
    LET id == c.window_count
    IN [c EXCEPT !.windows[id] = RunPaFile(PaPath, content),
                 !.z_order[id] = id,
                 !.window_count = id + 1,
                 !.dirty_rects = Append(@, ClkBounds(id))]

\* The buttons with a handler of a window.
ClkButtons(w) ==
    {k \in 1 .. Len(w.elements) :
        w.elements[k].kind = "Button" /\ w.elements[k].on_click # <<>>}

\* Where the mouse may be in a frame: on a button of a visible window, on
\* its body beside the buttons, or on the desktop.
ClkTargets(c) ==
    {t \in {<<"button", i, k>> : i \in ClkWindows, k \in 1 .. 5} :
        c.windows[t[2]].visible /\ t[3] \in ClkButtons(c.windows[t[2]])}
      \cup {<<"body", i, 0>> : i \in {j \in ClkWindows : c.windows[j].visible}}
      \cup {<<"desktop", 0, 0>>}

\* WindowManager::handle_input for a press inside the body of window i: on
\* button k if k > 0.  The result is the window manager and needs_redraw.
ClkPress(c, i, k) ==
    LET already_on_top == c.z_order[c.window_count - 1] = i
        Pressed(clicked) ==
            LET action == IF k > 0 THEN clicked[1].action ELSE ActionNone
                w == IF k > 0 THEN [c EXCEPT !.windows[i] = clicked[1].window] ELSE c
                c1 == IF k = 0 THEN c
                      ELSE IF action.kind = "Close"
                      THEN [w EXCEPT !.dirty_regions = Append(@,
                          DirtyRect(ClkBounds(i)))]
                      ELSE IF action.kind = "None"
                      THEN [w EXCEPT !.label_update_windows = Append(@, i)]
                      ELSE w
                taken == IF k > 0 THEN <<action>> ELSE <<>>
                front == [c1 EXCEPT !.z_order = BringToFront(c.z_order, c.window_count,
                    i),
                                    !.dirty_regions = Append(@, FullWindow(i))]
            IN IF k > 0 /\ action.kind = "Close"
               THEN [c |-> c1, needs_redraw |-> TRUE, action |-> taken]
               ELSE IF ~already_on_top
               THEN [c |-> front, needs_redraw |-> TRUE, action |-> taken]
               ELSE [c |-> c1, needs_redraw |-> k > 0, action |-> taken]
    IN Only({Pressed(clicked) :
             clicked \in {IF k > 0 THEN <<ClickButton(c.windows[i], k)>> ELSE <<>>}})

\* WindowManager::render_label_updates: the windows whose dynamic labels are
\* redrawn.
ClkLabelUpdates(c) ==
    {c.label_update_windows[n] : n \in 1 .. Len(c.label_update_windows)}
        \cap {i \in ClkWindows : c.windows[i].visible}

\* WindowManager::render_dirty_regions: the windows that window.render
\* paints.
ClkRenderedFull(c, dirty) ==
    {i \in ClkWindows :
        /\ c.windows[i].visible
        /\ \E n \in 1 .. Len(dirty) :
              \/ dirty[n].kind = "FullWindow" /\ dirty[n].id = i
              \/ dirty[n].kind = "Rect" /\ Intersects(ClkBounds(i), dirty[n].rect)}

\* Desktop::take_dirty_regions: the desktop's rectangles, then the window
\* manager's regions.
ClkTakeDirtyRegions(c) ==
    [n \in 1 .. Len(c.dirty_rects) |-> DirtyRect(c.dirty_rects[n])] \o c.dirty_regions

\* What run_gui draws after handle_input while no window is dragged and
\* the cursor keeps its type: the dirty regions if there are any, else the
\* whole desktop if handle_input asked for a redraw.
ClkRedraw(h, frame) ==
    LET dirty == ClkTakeDirtyRegions(h.c)
        taken == [h.c EXCEPT !.dirty_rects = <<>>, !.dirty_regions = <<>>]
    IN IF dirty # <<>>
       THEN [taken EXCEPT !.label_update_windows = <<>>,
                          !.frame = [frame EXCEPT !.labels = ClkLabelUpdates(h.c),
                                                  !.full = ClkRenderedFull(h.c, dirty)]]
       ELSE IF h.needs_redraw
       THEN [taken EXCEPT !.frame =
                [frame EXCEPT !.desktop_render = TRUE,
                              !.full = {i \in ClkWindows : h.c.windows[i].visible}]]
       ELSE [taken EXCEPT !.frame = frame]

\* One iteration of run_gui's loop with the mouse on target.
ClkIteration(c, target, mouse_down) ==
    LET mouse_pressed == mouse_down /\ ~c.last_mouse_down
        Handled(c1) ==
            IF mouse_pressed /\ target[1] # "desktop"
            THEN ClkPress(c1, target[2], target[3])
            ELSE [c |-> c1, needs_redraw |-> FALSE, action |-> <<>>]
        h == Only({Handled(c1) :
                   c1 \in {[c EXCEPT !.last_mouse_down = mouse_down,
                       !.frames = @ + 1]}})
    IN Only({ClkRedraw(hh, [NoClkFrame EXCEPT
                               !.pressed = mouse_pressed,
                               !.target = target,
                               !.action = hh.action,
                               !.on_top = c.z_order[c.window_count - 1] = target[2]])
             : hh \in {h}})

ClkInit == clk = NoClk

\* Two .pa files are run.
ClkOpen ==
    /\ ~clk.opened
    /\ \E a \in ClkApps, b \in ClkApps :
          clk' = [ClkRunPaFile(ClkRunPaFile(clk, a), b) EXCEPT !.opened = TRUE]
    /\ UNCHANGED nonclk

\* The main loop runs once.
ClkFrame ==
    /\ clk.opened /\ clk.frames < MaxClkFrames
    /\ \E target \in ClkTargets(clk), mouse_down \in BOOLEAN :
          clk' = ClkIteration(clk, target, mouse_down)
    /\ UNCHANGED nonclk

NextClk ==
    \/ ClkOpen
    \/ ClkFrame

\* A button was pressed in the last frame and its handler asked for no
\* window action.
ClkPlainClick ==
    /\ clk.frame.pressed /\ clk.frame.target[1] = "button"
    /\ clk.frame.action = <<ActionNone>>

\* C30: a click on a scripted button whose handler requests no window
\* action causes no full-window repaint: only the cached rectangles of the
\* window's dynamic labels are redrawn.
C30_PlainClickRedrawsLabelsOnly ==
    ClkPlainClick =>
        /\ ~clk.frame.desktop_render
        /\ clk.frame.full = {}
        /\ clk.frame.labels = {clk.frame.target[2]}

\* ------------------------------------------- files and their blocks

\* The blocks that the directory entry e records as the file's run.
RunOf(fs, e) ==
    fs.entries[e].first_block .. fs.entries[e].first_block + fs.entries[e].block_count - 1

\* No block lies in the runs of two directory entries.
NoSharedBlock ==
    \A e, f \in 0 .. MAX_ENTRIES - 1 :
        (e # f /\ md.entries[e].file_type # FT_Empty /\ md.entries[f].file_type # FT_Empty)
            => RunOf(md, e) \cap RunOf(md, f) = {}

\* A step that is a write_file or delete_file call that returns true.
WriteOrDeleteSucceeds ==
    /\ md_ops' = md_ops + 1 /\ ata_ok' = ata_ok
    /\ md_last'.op \in {"write_file", "delete_file"} /\ md_last'.ret

\* The names of the files other than the one that the step is called on.
OtherFiles ==
    {m \in Names : FindEntry(md, m) \notin {-1, FindEntry(md, md_last'.name)}}

\* C31: no data block is owned by two directory entries at once: a
\* successful write or delete of one file never changes the content that
\* read returns for any other file.
C31_FilesNeverShareBlocks ==
    /\ []NoSharedBlock
    /\ [][WriteOrDeleteSucceeds =>
             \A m \in OtherFiles :
                 ReadFile(md', disk', m, TRUE) = ReadFile(md, disk, m, TRUE)]_vars

\* A step that is a write_file call which is rejected because no entry has
\* the name or because the content needs more than BLOCKS_PER_FILE blocks.
WriteRejected ==
    /\ md_ops' = md_ops + 1 /\ ata_ok' = ata_ok
    /\ md_last'.op = "write_file" /\ ~md_last'.ret
    /\ \/ FindEntry(md, md_last'.name) = -1
       \/ BlocksNeeded(md_last'.data) > BLOCKS_PER_FILE

\* C34: a write_file call rejected because the name does not exist or
\* because the content exceeds the per-file cap changes no filesystem
\* state: the bitmap, free_blocks and the directory are as before and the
\* file's previous content is still what read returns.
C34_RejectedWriteChangesNothing ==
    [][WriteRejected =>
          /\ md'.fat = md.fat
          /\ md'.sb.free_blocks = md.sb.free_blocks
          /\ md'.entries = md.entries
          /\ \A m \in Names :
                ReadFile(md', disk', m, TRUE) = ReadFile(md, disk, m, TRUE)]_vars

\* ------------------------------------------------ presses and their owner

\* A step that is the mouse part of a frame in which the left button is
\* held down as in the frame before, its press having gone to the start
\* button or the start menu: the window manager has not seen the button
\* down yet.
HeldAfterDesktopPress ==
    /\ frames.pc = "mouse" /\ frames'.pc = "keys"
    /\ desk.last_mouse_down /\ desk'.last_mouse_down
    /\ ~wm.last_mouse_down

\* C32: a single press of the left button is handled by at most one of the
\* start button, the start menu and the window manager: a press consumed by
\* the start button or start menu is never treated as a new press on a
\* window in a later frame while the button is still held down (no window
\* is grabbed, raised or closed by it).
C32_PressHandledOnce ==
    [][HeldAfterDesktopPress =>
          /\ wm'.drag = wm.drag
          /\ wm'.z_order = wm.z_order
          /\ wm'.windows = wm.windows]_vars

\* ------------------------------------------------- windows and z-order

\* What the windows show when each pixel is taken from the frontmost
\* visible window that covers it.
FrontmostShown == WmRender(wm, 0)

\* The pixels at which the screen does not show the frontmost visible window
\* covering them; the open start menu lies over the windows.
Misdrawn ==
    Only({{p \in (DOMAIN shown) \ DOMAIN MenuRender(desk) : fb[p] # shown[p]} :
             shown \in {FrontmostShown}})

\* C33: after every compositor pass, each screen pixel covered by at least
\* one visible window shows the frontmost visible window covering it: no
\* window is left painted over a window that is above it in z-order.
C33_FrontmostWindowShown ==
    whist.pass.ran => Misdrawn = {}

\* ------------------------------------------------ parse_pa, loop by loop

\* PaParser::advance: one character on, and nothing at the end of the input.
Advance(src, pos) == IF pos < Len(src) THEN pos + 1 ELSE pos

\* The .pa texts that parse_pa is given: whole apps, apps with text between
\* the tags, and texts that end in the middle of a tag.
ParInputs ==
    {CounterApp, SpacedCounterApp, UnclosedApp, OpenEndedApp,
     <<"<", "a", "p", "p", " ", "t", "i", "t", "l", "e", "=", "\"", "N", "o", "t", "e",
         "s", "\"", ">", "s", "o", "m", "e", " ", "t", "e", "x", "t", "<", "s", "p", "a",
         "c", "e", "r", "/", ">", "a", "n", "d", " ", "m", "o", "r", "e", " ", "t", "e",
         "x", "t", "<", "/", "a", "p", "p", ">">>,
     <<"<", "a", "p", "p">>, <<"<", "a", "p", "p", " ", "t", "i", "t", "l", "e", "=">>,
         <<"<", "a", "p", "p", " ", "t", "i", "t", "l", "e", "=", "\"", "x">>,
     <<"<", "a", "p", "p", ">", "<", "l", "a", "b", "e", "l">>, <<"<", "a", "p", "p",
         ">", "<", "l", "a", "b", "e", "l", " ", "x", "=", "\"", "1", "\"">>, <<"<", "a",
         "p", "p", ">", "<", "l", "a", "b", "e", "l", ">", "h", "i">>, <<"<", "a", "p",
         "p", ">", "<", "b", "u", "t", "t", "o", "n", " ", "o", "n", "_", "c", "l", "i",
         "c", "k", "=", "\"">>,
     <<"<", "a", "p", "p", ">", "<", "f", "o", "o">>, <<"<", "a", "p", "p", ">", "<",
         "s", "c", "r", "i", "p", "t">>, <<"<", "a", "p", "p", ">", "<", "s", "c", "r",
         "i", "p", "t", ">", "v", "a", "r", " ", "c", " ", "=", " ", "0">>, <<"<", "a",
         "p", "p", ">", "<", "!", "-", "-", " ", "n", "o", " ", "e", "n", "d">>,
     <<"<", "a", "p", "p", ">", "<", "s", "p", "a", "c", "e", "r", "/", ">", "<", "l",
         "a", "b", "e", "l", ">", "a", "<", "/", "l", "a", "b", "e", "l", ">", "<", "/",
         "a", "p", "p", ">">>,
     <<"<", "a", "p", "p", ">", " ", "<", "s", "p", "a", "c", "e", "r", " ", "h", "e",
         "i", "g", "h", "t", "=", "\"", "4", "\"", " ", ">", " ", "<", "/", "s", "p",
         "a", "c", "e", "r", ">", " ", "t", "e", "x", "t", " ", "<", "/", "a", "p", "p",
         ">">>,
     <<"<", "a", "p", "p", ">", "<", "s", "p", "a", "c", "e", "r", " ", "/", " ", ">",
         "<", "l", "a", "b", "e", "l", ">", "a", "<", "/", "l", "a", "b", "e", "l", ">",
         "<", "/", "a", "p", "p", ">">>,
     <<"<", "a", "p", "p", ">", "a", " ", "n", "o", "t", "e", "<", "s", "p", "a", "c",
         "e", "r">>, <<"<", "a", "p", "p", ">", "<", "s", "p", "a", "c", "e", "r", " ",
         "s", "i", "z", "e", "=", "\"", "1", "\"", " ">>, <<"<", "a", "p", "p", ">", "<",
         "s", "p", "a", "c", "e", "r", "/">>}

NoPar == [pc |-> "idle", src |-> <<>>, pos |-> 0, app |-> <<>>, ret |-> ""]
ParInit == par = NoPar

\* parse_pa returns: Ok(app) or Err(error).
ParReturn(p, r) ==
    [p EXCEPT !.pc = "done", !.ret = IF r.ok THEN "Ok" ELSE r.v,
              !.app = IF r.ok THEN <<r.v>> ELSE <<>>]

\* parse_pa is called on a text: PaParser::parse up to its loop over the
\* children of <app>.
ParParse ==
    /\ par.pc = "idle"
    /\ \E content \in ParInputs :
          par' = Only({
              IF ~StartsWith(content, start, <<"<", "a", "p", "p">>)
              THEN ParReturn([NoPar EXCEPT !.src = content], Failed("ExpectedTag"))
              ELSE Only({CASE ~a.ok -> ParReturn([NoPar EXCEPT !.src = content], a)
                           [] a.v.self_closing ->
                                  ParReturn([NoPar EXCEPT !.src = content],
                                            Some(NewAppDef(a), a.pos))
                           [] OTHER -> [pc |-> "children", src |-> content,
                               pos |-> a.pos,
                                        app |-> <<NewAppDef(a)>>, ret |-> ""]
                         : a \in {PaParseAttrs(content, start + 4, NoBindings, TRUE)}})
              : start \in {PaSkipWhitespace(content, 0)}})
    /\ UNCHANGED nonpar

\* One round of the loop over the children of <app>.  A <spacer tag enters
\* parse_spacer; the other elements are parsed in the round.
ParChildStep(p) ==
    Only({CASE StartsWith(p.src, at, <<"<", "/", "a", "p", "p", ">">>) -> ParReturn(p,
        Some(p.app[1], at + 6))
            [] at >= Len(p.src) -> ParReturn(p, Failed("UnexpectedEnd"))
            [] PeekAt(p.src, at) # "<" -> [p EXCEPT !.pos = Advance(p.src, at)]
            [] StartsWith(p.src, at, <<"<", "s", "c", "r", "i", "p", "t">>) ->
                   Only({[p EXCEPT !.pos = sc.pos, !.app[1].script = <<sc.text>>]
                         : sc \in {PaScriptBlock(p.src, at)}})
            [] SubSeq(p.src, at + 2, PaNameEnd(p.src, at + 1)) = <<"s", "p", "a", "c",
                "e", "r">> ->
                   [p EXCEPT !.pc = "spacer", !.pos = PaNameEnd(p.src, at + 1)]
            [] OTHER ->
                   Only({IF el.ok
                         THEN [p EXCEPT !.pos = el.pos, !.app[1].elements = @ \o el.v]
                         ELSE ParReturn(p, el) : el \in {PaParseElement(p.src, at)}})
          : at \in {PaSkipWhitespace(p.src, p.pos)}})

ParChild ==
    /\ par.pc = "children"
    /\ par' = ParChildStep(par)
    /\ UNCHANGED nonpar

\* parse_spacer returns Some(Element::Spacer) to the loop over the children.
SpacerParsed(p, pos) ==
    [p EXCEPT !.pc = "children", !.pos = pos,
              !.app[1].elements = @ \o <<[kind |-> "Spacer", text |-> <<>>,
                                          on_click |-> <<>>]>>]

\* One round of the loop of parse_spacer: `>` ends the tag and an optional
\* </spacer> follows, `/>` ends it, after a `/` alone the round advances
\* twice, and everything else is advanced over.
ParSpacerStep(p) ==
    Only({CASE PeekAt(p.src, at) = ">" ->
                   SpacerParsed(p, After(p.src, PaSkipWhitespace(p.src, at + 1),
                                         <<"<", "/", "s", "p", "a", "c", "e", "r",
                                             ">">>))
            [] PeekAt(p.src, at) = "/" /\ PeekAt(p.src, at + 1) = ">" ->
                   SpacerParsed(p, at + 2)
            [] PeekAt(p.src, at) = "/" ->
                   [p EXCEPT !.pos = Advance(p.src, Advance(p.src, at))]
            [] OTHER -> [p EXCEPT !.pos = Advance(p.src, at)]
          : at \in {PaSkipWhitespace(p.src, p.pos)}})

ParSpacer ==
    /\ par.pc = "spacer"
    /\ par' = ParSpacerStep(par)
    /\ UNCHANGED nonpar

NextPar ==
    \/ ParParse
    \/ ParChild
    \/ ParSpacer

ParRunning == par.pc \in {"children", "spacer"}

\* C35: parse_pa terminates on every input string, returning either an app
\* definition or a parse error, including inputs that end in the middle of
\* a tag: a parse that has begun reaches its return.
C35_ParsePaTerminates == ParRunning ~> (par.pc = "done")

\* ------------------------------------- the script parser, loop by loop

\* The texts of script blocks: declarations and functions, text that is
\* neither, and texts that end or go wrong inside a parameter list.
SpScripts ==
    {<<"v", "a", "r", " ", "c", " ", "=", " ", "0", " ", "f", "u", "n", "c", " ", "i",
        "n", "c", "(", ")", " ", "{", " ", "c", " ", "=", " ", "c", " ", "+", " ", "1",
        " ", "}">>,
     <<"f", "u", "n", "c", " ", "a", "d", "d", "(", "a", ",", " ", "b", ")", " ", "{",
         " ", "c", " ", "=", " ", "a", " ", "+", " ", "b", " ", "}", " ", "f", "u", "n",
         "c", " ", "n", "e", "g", "(", "a", ")", " ", "{", " ", "r", "e", "t", "u", "r",
         "n", " ", "0", " ", "-", " ", "a", " ", "}">>,
     <<"l", "e", "t", " ", "t", " ", "=", " ", "0", ";", " ", "f", "u", "n", "c", " ",
         "f", "(", "a", ",", ")", " ", "{", " ", "}">>, <<"#", " ", "c", "o", "u", "n",
         "t", "e", "r", " ", "f", "u", "n", "c", " ", "f">>, <<"f", "u", "n", "c">>,
         <<"f", "u", "n", "c", " ", "f", "(", "a", ")", " ", "{">>,
     <<"i", "n", "i", "t", ":", " ", "f", "u", "n", "c", " ", "s", "t", "a", "r", "t",
         "(", "f", "i", "r", "s", "t", ",", " ", "s", "e", "c", "o", "n", "d", ",", " ",
         "t", "h", "i", "r", "d", ")", " ", "{", " ", "c", " ", "=", " ", "f", "i", "r",
         "s", "t", " ", "}">>,
     <<"f", "u", "n", "c", " ", "f", "(", "a">>, <<"f", "u", "n", "c", " ", "f", "(",
         "a", ",", " ">>, <<"f", "u", "n", "c", " ", "f", "(", "1", ")", " ", "{", " ",
         "}">>, <<"f", "u", "n", "c", " ", "f", "(", "a", " ", "{", " ", "c", " ", "=",
         " ", "1", " ", "}">>, <<"f", "u", "n", "c", " ", "f", "(">>}

\* The texts of on_click handlers that begin with a call: whole calls, and
\* texts that end or go wrong inside the argument list.
SpHandlers ==
    {<<"i", "n", "c", "(", ")">>, <<"a", "d", "d", "(", "1", ",", " ", "2", ")", ";",
        " ", "i", "n", "c", "(", ")">>, <<"s", "e", "t", "(", "1", ",", " ", "2", ",",
        " ", "3", ",", " ", "4", ")", ";", " ", "c", " ", "=", " ", "c", " ", "+", " ",
        "1", ";", " ", "i", "n", "c", "(", ")">>, <<"a", "d", "d", "(", "1", " ", "2",
        ")", " ", "+", " ", "1", " ", ";", " ", "c", " ", "=", " ", "2">>, <<"f", "(",
        ",", ")">>, <<"c", " ", "=", " ", "1">>,
     <<"f", "(">>, <<"f", "(", "1", ",", " ">>, <<"f", "(", "1">>, <<"f", "(", "+",
         ")">>, <<"f", "(", "a", " ", "=", " ", "1", ")">>, <<"f", "(", "1", ")", " ",
         "+", " ">>}

NoSp ==
    [pc |-> "idle", src |-> <<>>, pos |-> 0, name |-> <<>>, list |-> <<>>,
     vars |-> <<>>, funcs |-> <<>>, stmts |-> <<>>]
SpInit == sp = NoSp

\* execute_script is called on the text of a script block: parse_script.
SpExecuteScript ==
    /\ sp.pc = "idle"
    /\ \E source \in SpScripts : sp' = [NoSp EXCEPT !.pc = "script", !.src = source]
    /\ UNCHANGED nonsp

\* execute_inline is called on the text of a handler: parse_inline.
SpExecuteInline ==
    /\ sp.pc = "idle"
    /\ \E source \in SpHandlers : sp' = [NoSp EXCEPT !.pc = "inline", !.src = source]
    /\ UNCHANGED nonsp

\* One round of the loop of parse_script.  `func` and a name enter the
\* parameter loop of parse_function.
SpScriptStep(s) ==
    Only({CASE p >= Len(s.src) -> [s EXCEPT !.pc = "done", !.pos = p]
            [] StartsWith(s.src, p, <<"f", "u", "n", "c">>) ->
                   Only({IF ~id.ok THEN [s EXCEPT !.pos = id.pos]
                         ELSE [s EXCEPT !.pc = "params", !.name = id.v, !.list = <<>>,
                                        !.pos = ScriptConsume(s.src, id.pos,
                                            <<"(">>).pos]
                         : id \in {ScriptParseIdentifier(s.src, p + 4)}})
            [] StartsWith(s.src, p, <<"v", "a", "r">>) ->
                   Only({[s EXCEPT !.pos = d.pos,
                                   !.vars = IF d.ok THEN Append(@, d.v) ELSE @]
                         : d \in {ParseVarDecl(s.src, p + 3)}})
            [] OTHER -> [s EXCEPT !.pos = p + 1]
          : p \in {ScriptSkipWhitespace(s.src, s.pos)}})

SpScript ==
    /\ sp.pc = "script"
    /\ sp' = SpScriptStep(sp)
    /\ UNCHANGED nonsp

\* One round of the parameter loop of parse_function: `)` ends the list and
\* the body follows; otherwise a name, if there is one, and a comma, if
\* there is one.
SpParamsStep(s) ==
    IF ScriptConsume(s.src, s.pos, <<")">>).ok
    THEN Only({[s EXCEPT !.pc = "script", !.pos = b.pos, !.name = <<>>, !.list = <<>>,
                         !.funcs = Append(@, [name |-> s.name, params |-> s.list,
                                              body |-> b.v])]
               : b \in {ParseBraced(s.src, ScriptConsume(s.src, s.pos, <<")">>).pos)}})
    ELSE Only({[s EXCEPT !.pos = ScriptConsume(s.src, id.pos, <<",">>).pos,
                         !.list = IF id.ok THEN Append(@, id.v) ELSE @]
               : id \in {ScriptParseIdentifier(s.src, s.pos)}})

SpParams ==
    /\ sp.pc = "params"
    /\ sp' = SpParamsStep(sp)
    /\ UNCHANGED nonsp

\* parse_statement reaches the argument loop of parse_primary at once: the
\* text at p is no keyword, no assignment and no literal, and a name and
\* `(` follow.
CallAt(src, p) ==
    /\ \A kw \in {<<"i", "f">>, <<"w", "h", "i", "l", "e">>, <<"r", "e", "t", "u", "r",
        "n">>, <<"v", "a", "r">>, <<"t", "r", "u", "e">>, <<"f", "a", "l", "s", "e">>,
        <<"n", "u", "l", "l">>} :
          ~StartsWith(src, p, kw)
    /\ ScriptParseIdentifier(src, p).ok
    /\ ScriptConsume(src, ScriptParseIdentifier(src, p).pos, <<"(">>).ok

\* parse_inline after a statement, or after none.
SpStatement(s, st) ==
    IF st.ok
    THEN [s EXCEPT !.pc = "inline", !.pos = ScriptConsume(s.src, st.pos, <<";">>).pos,
                   !.stmts = Append(@, st.v), !.name = <<>>, !.list = <<>>]
    ELSE [s EXCEPT !.pc = "done", !.pos = st.pos, !.name = <<>>, !.list = <<>>]

\* One round of the loop of parse_inline.  A statement that begins with a
\* call enters the argument loop of parse_primary.
SpInlineStep(s) ==
    Only({CASE p >= Len(s.src) -> [s EXCEPT !.pc = "done", !.pos = p]
            [] CallAt(s.src, p) ->
                   Only({[s EXCEPT !.pc = "args", !.name = id.v, !.list = <<>>,
                                   !.pos = ScriptConsume(s.src, id.pos, <<"(">>).pos]
                         : id \in {ScriptParseIdentifier(s.src, p)}})
            [] OTHER -> SpStatement(s, ParseStatement(s.src, p))
          : p \in {ScriptSkipWhitespace(s.src, s.pos)}})

SpInline ==
    /\ sp.pc = "inline"
    /\ sp' = SpInlineStep(sp)
    /\ UNCHANGED nonsp

\* One round of the argument loop of parse_primary: `)` ends the list, the
\* call is the first operand of the statement's expression and the operator
\* loops of parse_multiplicative ... parse_or follow; otherwise an
\* expression, if there is one, and a comma, if there is one.
SpArgsStep(s) ==
    IF ScriptConsume(s.src, s.pos, <<")">>).ok
    THEN Only({SpStatement(s, IF x.ok THEN Some([s |-> "ExprStmt", expr |-> x.v], x.pos)
                              ELSE x)
               : x \in {ParseClimb(Len(BinLevels), 1,
                                   Some([e |-> "Call", name |-> s.name,
                                       args |-> s.list],
                                        ScriptConsume(s.src, s.pos, <<")">>).pos),
                                   s.src)}})
    ELSE Only({[s EXCEPT !.pos = ScriptConsume(s.src, x.pos, <<",">>).pos,
                         !.list = IF x.ok THEN Append(@, x.v) ELSE @]
               : x \in {ParseExpr(s.src, s.pos)}})

SpArgs ==
    /\ sp.pc = "args"
    /\ sp' = SpArgsStep(sp)
    /\ UNCHANGED nonsp

NextSp ==
    \/ SpExecuteScript
    \/ SpExecuteInline
    \/ SpScript
    \/ SpParams
    \/ SpInline
    \/ SpArgs

SpRunning == sp.pc \in {"script", "params", "inline", "args"}

\* C36: parsing a script block or an on_click handler terminates for every
\* input text, including text that ends or goes wrong inside a function's
\* parameter list or a call's argument list: a parse that has begun reaches
\* its return.
C36_ScriptParsingTerminates == SpRunning ~> (sp.pc = "done")

\* ------------------------------------------------ arithmetic on Value::Int

\* The width of Value::Int.  i64 is scaled to 16 bits: the operations and
\* their overflow cases are those of two's complement at any width.
IntBits == 16
INT_MIN == 0 - 2 ^ (IntBits - 1)
INT_MAX == 2 ^ (IntBits - 1) - 1
Wrap(i) == ((i - INT_MIN) % 2 ^ IntBits) + INT_MIN

\* The handler panics and does not continue.
Panic == [t |-> "Panic", v |-> 0]

\* What an arithmetic operator of i64 yields for the exact result r: r when
\* it is in range; out of range the operation panics where overflow checks
\* are compiled in and wraps where they are not.
Overflowing(r) == IF r \in INT_MIN .. INT_MAX THEN {VInt(r)} ELSE {Panic, VInt(Wrap(r))}

\* ScriptEngine::apply_binop on the arithmetic operators, with the width of
\* i64: the outcomes that a build can produce.  Division and remainder of
\* INT_MIN by -1 panic in every build.
BinopOutcomes(left, op, right) ==
    CASE op \in {"Add", "Sub", "Mul"} -> Overflowing(ApplyBinop(left, op, right).v)
      [] ToInt(right) = 0 -> {VInt(0)}
      [] ToInt(left) = INT_MIN /\ ToInt(right) = -1 -> {Panic}
      [] OTHER -> {ApplyBinop(left, op, right)}

\* ScriptEngine::evaluate on UnaryOperator::Neg: -v.to_int().
NegOutcomes(v) == Overflowing(0 - ToInt(v))

\* The operands: the ends of the range, small numbers, and values that
\* to_int turns into numbers.
ArValues ==
    {VInt(i) : i \in {INT_MIN, INT_MIN + 1, -7, -2, -1, 0, 1, 2, 3, 7, INT_MAX - 1,
        INT_MAX}}
        \cup {VNull, VBool(TRUE)}

NoAr == [done |-> FALSE, op |-> "", left |-> VNull, right |-> VNull, out |-> VNull]
ArInit == ar = NoAr

\* A handler evaluates a binary arithmetic expression on two values.
ArBinop ==
    /\ \E op \in {"Add", "Sub", "Mul", "Div", "Mod"}, left, right \in ArValues :
          \E out \in BinopOutcomes(left, op, right) :
              ar' = [done |-> TRUE, op |-> op, left |-> left, right |-> right,
                     out |-> out]
    /\ UNCHANGED nonar

\* A handler evaluates a unary minus on a value.
ArNeg ==
    /\ \E v \in ArValues :
          \E out \in NegOutcomes(v) :
              ar' = [done |-> TRUE, op |-> "Neg", left |-> v, right |-> VNull,
                     out |-> out]
    /\ UNCHANGED nonar

NextAr ==
    \/ ArBinop
    \/ ArNeg

\* C37: no script arithmetic operation (+, -, *, /, %, unary minus) traps
\* for any operand values: evaluation always yields a value and the handler
\* continues.
C37_ArithmeticNeverTraps == ar.done => ar.out.t = "Int"


\* ------------------------------------------- delivery of Ctrl-letter combos

\* How many elements of a ring a history holds.
CountOf(h, R) == Cardinality({k \in 1 .. Len(h) : h[k][1] = R})

\* The n-th combo has been enqueued on the Ctrl-combo ring; it has been
\* popped and handed to desktop.handle_keyboard_input.
ComboEnqueued(n) == CountOf(khist.arrived, "COMBO") >= n
ComboDelivered(n) == CountOf(khist.delivered, "COMBO") >= n

\* C38: every Ctrl-letter combo enqueued on the Ctrl-combo ring is eventually
\* popped and delivered to the window manager by the main loop, even if Ctrl
\* is released or characters are queued before the loop next polls.  (A
\* handler that waits on a lock of the interrupted loop ends the run; such
\* runs are not counted against the delivery.)
C38_CombosEventuallyDelivered ==
    \A n \in 1 .. MaxIrqs : ComboEnqueued(n) ~> (ComboDelivered(n) \/ irq.pc = "spin")

\* --------------------------------- the packet buffer under poll and IRQ 12

\* Bytes of the device stream: with and without bit 3.
PkBytes == {1, 8}
\* Bytes read from the data port in one run.
MaxReads == 6

\* A slot of PACKET_BUF: the byte, its position in the device stream (0 for
\* the initial zero), and whether it was stored and not yet decoded.
Slot(byte, pos, fresh) == [byte |-> byte, pos |-> pos, fresh |-> fresh]

\* No store and no decode yet.
NoStore == [done |-> FALSE, over |-> FALSE]
NoDecode == [done |-> FALSE, pos |-> <<0, 0, 0>>, fresh |-> FALSE]

\* PACKET_BUF[idx].store(byte): `over` tells that the slot held a byte that
\* no packet had taken yet.
PkStore(s, idx, byte, pos) ==
    [s EXCEPT !.buf[idx + 1] = Slot(byte, pos, TRUE),
              !.store = [done |-> TRUE, over |-> s.buf[idx + 1].fresh]]

\* PACKET_BUF[k].load() for the decoding of a packet: the byte is taken.
PkLoad(s, k) == [s EXCEPT !.buf[k + 1].fresh = FALSE]

\* The three loads b0, b1, b2 have been made: the packet that is decoded.
PkDecoded(s, slots) ==
    [s EXCEPT !.decode = [done |-> TRUE,
                          pos |-> <<slots[1].pos, slots[2].pos, slots[3].pos>>,
                          fresh |-> \A k \in 1 .. 3 : slots[k].fresh]]

\* process_byte from its first line to its last, as the interrupt handler
\* runs it: nothing comes between its steps.
PkProcessByte(s, byte, pos) ==
    IF s.idx = 0 /\ ~Bit(byte, 3) THEN s
    ELSE Only({IF s.idx # 2 THEN [t EXCEPT !.idx = s.idx + 1]
               ELSE PkDecoded(PkLoad(PkLoad(PkLoad([t EXCEPT !.idx = 0], 0), 1), 2),
                              t.buf)
               : t \in {PkStore(s, s.idx, byte, pos)}})

\* mouse::init has reset the packet index; poll is not running.
PkInit ==
    pk = [idx |-> 0, buf |-> <<Slot(0, 0, FALSE), Slot(0, 0, FALSE), Slot(0, 0,
        FALSE)>>,
          store |-> NoStore, decode |-> NoDecode, reads |-> 0, irqs |-> 0,
          poll |-> [pc |-> "idle", byte |-> 0, pos |-> 0, idx |-> 0, slots |-> <<>>]]

PkIdle == [pc |-> "idle", byte |-> 0, pos |-> 0, idx |-> 0, slots |-> <<>>]

\* poll: the status port says that a byte of the mouse waits and poll reads
\* it from the data port.
PkPollRead ==
    /\ pk.poll.pc = "idle"
    /\ pk.reads < MaxReads
    /\ \E byte \in PkBytes :
          pk' = [pk EXCEPT !.reads = @ + 1,
                           !.poll = [PkIdle EXCEPT !.pc = "load", !.byte = byte,
                                                   !.pos = pk.reads + 1]]
    /\ UNCHANGED nonpk

\* process_byte in poll: PACKET_IDX.load() and the test of the first byte.
PkPollLoad ==
    /\ pk.poll.pc = "load"
    /\ pk' = IF pk.idx = 0 /\ ~Bit(pk.poll.byte, 3) THEN [pk EXCEPT !.poll = PkIdle]
             ELSE [pk EXCEPT !.poll.pc = "store", !.poll.idx = pk.idx]
    /\ UNCHANGED nonpk

\* process_byte in poll: PACKET_BUF[idx].store(byte).
PkPollStore ==
    /\ pk.poll.pc = "store"
    /\ pk' = [PkStore(pk, pk.poll.idx, pk.poll.byte, pk.poll.pos) EXCEPT
                 !.poll.pc = "index"]
    /\ UNCHANGED nonpk

\* process_byte in poll: PACKET_IDX.store(0) with the third byte, else
\* PACKET_IDX.store(idx + 1) and the return.
PkPollIndex ==
    /\ pk.poll.pc = "index"
    /\ pk' = IF pk.poll.idx = 2 THEN [pk EXCEPT !.idx = 0, !.poll.pc = "b0"]
             ELSE [pk EXCEPT !.idx = pk.poll.idx + 1, !.poll = PkIdle]
    /\ UNCHANGED nonpk

\* process_byte in poll: let b0 = PACKET_BUF[0].load().
PkPollB0 ==
    /\ pk.poll.pc = "b0"
    /\ pk' = [PkLoad(pk, 0) EXCEPT !.poll.pc = "b1", !.poll.slots = <<pk.buf[1]>>]
    /\ UNCHANGED nonpk

\* process_byte in poll: let b1 = PACKET_BUF[1].load().
PkPollB1 ==
    /\ pk.poll.pc = "b1"
    /\ pk' = [PkLoad(pk, 1) EXCEPT !.poll.pc = "b2",
                                   !.poll.slots = Append(pk.poll.slots, pk.buf[2])]
    /\ UNCHANGED nonpk

\* process_byte in poll: let b2 = PACKET_BUF[2].load(); the packet is
\* decoded and poll returns.
PkPollB2 ==
    /\ pk.poll.pc = "b2"
    /\ pk' = [PkDecoded(PkLoad(pk, 2), Append(pk.poll.slots, pk.buf[3])) EXCEPT
                 !.poll = PkIdle]
    /\ UNCHANGED nonpk

\* IRQ 12 between two steps of the main loop: handle_interrupt reads a byte
\* from the data port and runs process_byte to its end.
PkInterrupt ==
    /\ pk.reads < MaxReads
    /\ \E byte \in PkBytes :
          pk' = [PkProcessByte(pk, byte, pk.reads + 1) EXCEPT !.reads = pk.reads + 1,
                                                              !.irqs = pk.irqs + 1]
    /\ UNCHANGED nonpk

NextPk ==
    \/ PkPollRead
    \/ PkPollLoad
    \/ PkPollStore
    \/ PkPollIndex
    \/ PkPollB0
    \/ PkPollB1
    \/ PkPollB2
    \/ PkInterrupt

\* The last decoded packet is made of three bytes taken consecutively from
\* the device stream, none of them decoded before.
PacketWhole ==
    pk.decode.done =>
        /\ pk.decode.fresh
        /\ pk.decode.pos[2] = pk.decode.pos[1] + 1
        /\ pk.decode.pos[3] = pk.decode.pos[2] + 1

\* C39: under every interleaving of the polling path with the mouse IRQ
\* entry point, the packet index stays in {0, 1, 2} and every decoded packet
\* is made of three bytes taken consecutively from the device stream, each
\* stored in its own slot (no byte lost, duplicated or overwritten).
C39_PacketsWholeUnderInterleaving ==
    /\ pk.idx \in {0, 1, 2}
    /\ PacketWhole
    /\ ~pk.store.over

\* ------------------------------------------------ return in user functions

\* A script block whose functions return from the top of their body, from
\* an if block, from an else block and from a while block.  Every
\* `return k` follows a statement that appends the digit k to `hit`, so
\* that hit tells which return statements a call has reached.
RetScript ==
    <<"v", "a", "r", " ", "h", "i", "t", " ", "=", " ", "0", " ", "v", "a", "r", " ",
        "r", " ", "=", " ", "0", " ", "f", "u", "n", "c", " ", "t", "o", "p", "(", "a",
        ")", " ", "{", " ", "h", "i", "t", " ", "=", " ", "h", "i", "t", " ", "*", " ",
        "1", "0", " ", "+", " ", "1", " ", "r", "e", "t", "u", "r", "n", " ", "1", " ",
        "h", "i", "t", " ", "=", " ", "h", "i", "t", " ", "*", " ", "1", "0", " ", "+",
        " ", "2", " ", "r", "e", "t", "u", "r", "n", " ", "2", " ", "}", " ", "f", "u",
        "n", "c", " ", "i", "n", "i", "f", "(", "a", ")", " ", "{", " ", "i", "f", " ",
        "a", " ", ">", " ", "0", " ", "{", " ", "h", "i", "t", " ", "=", " ", "h", "i",
        "t", " ", "*", " ", "1", "0", " ", "+", " ", "3", " ", "r", "e", "t", "u", "r",
        "n", " ", "3", " ", "}", " ", "h", "i", "t", " ", "=", " ", "h", "i", "t", " ",
        "*", " ", "1", "0", " ", "+", " ", "4", " ", "r", "e", "t", "u", "r", "n", " ",
        "4", " ", "}", " ", "f", "u", "n", "c", " ", "i", "n", "e", "l", "s", "e", "(",
        "a", ")", " ", "{", " ", "i", "f", " ", "a", " ", ">", " ", "1", " ", "{", " ",
        "a", " ", "=", " ", "0", " ", "}", " ", "e", "l", "s", "e", " ", "{", " ", "h",
        "i", "t", " ", "=", " ", "h", "i", "t", " ", "*", " ", "1", "0", " ", "+", " ",
        "5", " ", "r", "e", "t", "u", "r", "n", " ", "5", " ", "}", " ", "h", "i", "t",
        " ", "=", " ", "h", "i", "t", " ", "*", " ", "1", "0", " ", "+", " ", "6", " ",
        "r", "e", "t", "u", "r", "n", " ", "6", " ", "}", " ", "f", "u", "n", "c", " ",
        "i", "n", "w", "h", "i", "l", "e", "(", "n", ")", " ", "{", " ", "v", "a", "r",
        " ", "i", " ", "=", " ", "0", " ", "w", "h", "i", "l", "e", " ", "i", " ", "<",
        " ", "n", " ", "{", " ", "i", " ", "=", " ", "i", " ", "+", " ", "1", " ", "h",
        "i", "t", " ", "=", " ", "h", "i", "t", " ", "*", " ", "1", "0", " ", "+", " ",
        "7", " ", "r", "e", "t", "u", "r", "n", " ", "7", " ", "}", " ", "h", "i", "t",
        " ", "=", " ", "h", "i", "t", " ", "*", " ", "1", "0", " ", "+", " ", "8", " ",
        "r", "e", "t", "u", "r", "n", " ", "8", " ", "}">>
RetFunctions == {<<"t", "o", "p">>, <<"i", "n", "i", "f">>, <<"i", "n", "e", "l", "s",
    "e">>, <<"i", "n", "w", "h", "i", "l", "e">>}
RetArgs == {<<"0">>, <<"1">>, <<"2">>, <<"3">>}
\* The handler that calls a function on an argument and keeps the result.
RetHandler(name, arg) == <<"h", "i", "t", " ", "=", " ", "0", ";", " ", "r", " ", "=",
    " ">> \o name \o <<"(">> \o arg \o <<")">>

\* Calls in one run.
MaxCalls == 3

RtInit == rt = [st |-> NewScriptEngine, loaded |-> FALSE, calls |-> 0, handler |-> <<>>]

\* The app's script block is executed.
RtExecuteScript ==
    /\ ~rt.loaded
    /\ rt' = [rt EXCEPT !.st = ExecuteScript(NewScriptEngine, RetScript),
                        !.loaded = TRUE]
    /\ UNCHANGED nonrt

\* A click runs a handler that calls one of the functions.
RtExecuteInline ==
    /\ rt.loaded
    /\ rt.calls < MaxCalls
    /\ \E name \in RetFunctions, arg \in RetArgs :
          rt' = [rt EXCEPT !.st = ExecuteInline(rt.st, RetHandler(name, arg)),
                           !.calls = @ + 1, !.handler = RetHandler(name, arg)]
    /\ UNCHANGED nonrt

NextRt ==
    \/ RtExecuteScript
    \/ RtExecuteInline

\* C40: when a user function executes a return statement, the returned
\* value becomes the result of the call and no later statement of the
\* function body is executed, including when the return is nested inside an
\* if or while block: after a call, the result is the value of the one
\* return statement that the call has reached.
C40_ReturnEndsCall ==
    rt.calls > 0 => rt.st.variables[<<"r">>] = rt.st.variables[<<"h", "i", "t">>]


S3Init == WlInit /\ ScrIdle /\ CurInit /\ MsInit /\ AtaInit /\ ClkInit

S4Init == ParInit /\ SpInit /\ ArInit /\ PkInit /\ RtInit
Init == MdInit /\ SfsInit /\ KbdInit /\ GuiInit /\ ZInit /\ PaInit /\ S3Init /\ S4Init

InitScr ==
    /\ MdInit /\ SfsInit /\ KbdInit /\ GuiInit /\ ZInit /\ PaInit
    /\ WlInit /\ CurInit /\ MsInit /\ AtaInit /\ ClkInit /\ ScrInit /\ S4Init

NextFS ==
    \/ AtaFault
    \/ MdMount
    \/ MdFormat
    \/ MdCreateFile
    \/ MdCreateDirectory
    \/ MdWriteFile
    \/ MdDeleteFile

SpecFS == Init /\ [][NextFS]_vars

NextSFS ==
    \/ SfsCreateFile
    \/ SfsCreateDirectory
    \/ SfsWriteFile
    \/ SfsDeleteFile

SpecSFS == Init /\ [][NextSFS]_vars

NextKbd ==
    \/ IrqEnter
    \/ IrqLockState
    \/ IrqDecode
    \/ IrqLockRing
    \/ IrqStore
    \/ IrqPublish
    \/ IrqUnlock
    \/ IrqEoi
    \/ MainLock
    \/ MainReadCtrl
    \/ MainPopLoad
    \/ MainPopAdvance
    \/ MainCharReturn
    \/ MainComboReturn
    \/ MainSpecialReturn

SpecKbd == Init /\ [][NextKbd]_vars

NextZ ==
    \/ ZAddWindow
    \/ ZBringToFront

SpecZ == Init /\ [][NextZ]_vars

NextGui ==
    \/ GuiPollKeys
    \/ GuiHandleMouse

\* The loop is followed from the fresh desktop, from the desktop with both
\* windows open, and from the desktop with a full window array.
InitGui ==
    MdInit /\ SfsInit /\ KbdInit /\ (GuiInit \/ GuiInitOpened \/ GuiInitFull) /\ ZInit
    /\ PaInit /\ S3Init /\ S4Init

SpecGui == InitGui /\ [][NextGui]_vars

NextPa ==
    \/ PaRunFile
    \/ PaClick
    \/ PaRenderLabel

SpecPa == Init /\ [][NextPa]_vars

SpecScr == InitScr /\ [][NextScr]_vars

SpecCur == Init /\ [][NextCur]_vars

SpecMs == Init /\ [][NextMs]_vars

SpecAta == Init /\ [][NextAta]_vars

\* The processor goes on executing an operation that it has begun.
SpecAtaLive ==
    SpecAta /\ WF_vars(AtaWaitNotBusy) /\ WF_vars(AtaWaitDrq) /\ WF_vars(AtaWaitFlush)

SpecClk == Init /\ [][NextClk]_vars

SpecPar == Init /\ [][NextPar]_vars

\* parse_pa runs to its return once it is called: each round of a loop is
\* followed by the next.
SpecParLive == SpecPar /\ WF_vars(ParChild) /\ WF_vars(ParSpacer)

\* The main loop polls the keyboard in every frame, and an interrupt handler
\* that has been entered runs on.
SpecKbdLive ==
    /\ SpecKbd
    /\ WF_vars(IrqLockState) /\ WF_vars(IrqDecode) /\ WF_vars(IrqLockRing)
    /\ WF_vars(IrqStore) /\ WF_vars(IrqPublish) /\ WF_vars(IrqUnlock)
    /\ WF_vars(IrqEoi)
    /\ WF_vars(MainLock) /\ WF_vars(MainReadCtrl) /\ WF_vars(MainPopLoad)
    /\ WF_vars(MainPopAdvance) /\ WF_vars(MainCharReturn)
    /\ WF_vars(MainComboReturn) /\ WF_vars(MainSpecialReturn)

SpecPk == Init /\ [][NextPk]_vars

SpecRt == Init /\ [][NextRt]_vars

SpecAr == Init /\ [][NextAr]_vars

SpecSp == Init /\ [][NextSp]_vars

\* The parser runs to its return once it is called: each round of a loop is
\* followed by the next.
SpecSpLive ==
    /\ SpecSp
    /\ WF_vars(SpScript) /\ WF_vars(SpParams) /\ WF_vars(SpInline) /\ WF_vars(SpArgs)

SpecWhile == Init /\ [][NextWhile]_vars

\* execute_stmt runs to its end once it is called: each round is taken.
SpecWhileLive == SpecWhile /\ WF_vars(WhileIterate) /\ WF_vars(WhileExit)

====
